---- MODULE Spec2Model ----
(***************************************************************************)
(* Model of the MTFS chaincodes: the two-asset constant-product pool       *)
(* (LPContract.ts, class LiquidityPool), the settlement token it moves     *)
(* value on (Token.ts), the liquidity-provider registry it credits fees    *)
(* to (LiquidityProviderContract), the price oracle it consults            *)
(* (OracleContract.ts), the basket of assets (order.ts, class              *)
(* BasketContract) and the risk predicates over the basket                 *)
(* (RiskManagementContract).                                               *)
(*                                                                         *)
(* Numbers.  The chaincode computes in IEEE-754 doubles.  The model        *)
(* computes in exact rationals <<n, d>> (d > 0, lowest terms), so a        *)
(* statement "up to rounding" of the source is an exact statement here.    *)
(* Where the source's arithmetic leaves the finite numbers (a division by  *)
(* zero: NaN or an infinity) the model follows what the code then does     *)
(* with the value (see Swap, RemoveLiquidity, UpdateEarnedFees).           *)
(*                                                                         *)
(* Transactions.  A Fabric transaction that throws commits nothing, and    *)
(* the writes of a chaincode invoked with invokeChaincode on the same      *)
(* channel belong to the caller's transaction.  Every handler is therefore *)
(* an operator from the world state and its arguments to a result          *)
(* [ok, err, w, ...]; the action commits result.w only when result.ok.     *)
(***************************************************************************)
EXTENDS Integers, Sequences, FiniteSets, TLC

VARIABLES
    reserve,           \* pool key "ReserveWallet": DOMAIN is {} before Init
    userContribution,  \* pool keys "UserContribution:" + userId (DOMAIN: users with a record)
    providers,         \* LiquidityProviderContract state, keyed by user
    balance,           \* token ledgers: balance[token][account], DOMAIN: accounts with a record
    oracle,            \* OracleContract state: currency -> price
    baskets,           \* BasketContract state: basket ID -> Basket record
    cbdc,              \* the basket's asset ledgers: cbdc[chaincode][account]
    last,              \* the last transaction: handler, arguments, outcome, returned value
    steps,             \* number of transactions submitted so far
    version,           \* committed version of the pool key "ReserveWallet"
    pending,           \* endorsed pool transactions waiting to be ordered
    ledger,            \* Token chaincode on its own: name key, totalSupply, balances, allowances
    paycrow,           \* PayCrow chaincode: name key, balances, orders; moved/paid: totals per order
    dao                \* DAOContract: countries, proposals; now: the clock Date.now() reads

\* the state beside the pool, the basket and their collaborators
others == <<version, pending, ledger, paycrow, dao>>

\* the pool, the basket and their collaborators
exchange == <<reserve, userContribution, providers, balance, oracle, baskets, cbdc>>

vars == <<reserve, userContribution, providers, balance, oracle, baskets, cbdc,
          last, steps, others>>

-----------------------------------------------------------------------------
(* Bounds of the model *)

MaxSteps == 3

\* Math.sqrt is evaluated to 1/SqrtScale (exact on perfect squares).
SqrtScale == 10

Users == {"u1", "u2"}

-----------------------------------------------------------------------------
(* Exact rational arithmetic standing for the source's `number` *)

Abs(x) == IF x < 0 THEN -x ELSE x

RECURSIVE GCD(_, _)
GCD(a, b) == IF b = 0 THEN a ELSE GCD(b, a % b)

Norm(n, d) ==
    LET s == IF d < 0 THEN -1 ELSE 1
        g == GCD(Abs(n), Abs(d))
    IN  <<(s * n) \div g, (s * d) \div g>>

Rat(i) == <<i, 1>>
Zero == <<0, 1>>

\* The operations reduce by common factors before they multiply, which keeps
\* the intermediate integers small; the values are those of n1/d1 op n2/d2.
RAdd(a, b) ==
    LET g == GCD(a[2], b[2])
    IN  Norm(a[1] * (b[2] \div g) + b[1] * (a[2] \div g), (a[2] \div g) * b[2])
RNeg(a) == <<-a[1], a[2]>>
RSub(a, b) == RAdd(a, RNeg(b))
RMul(a, b) ==
    LET g1 == GCD(Abs(a[1]), b[2])
        g2 == GCD(Abs(b[1]), a[2])
    IN  Norm((a[1] \div g1) * (b[1] \div g2), (a[2] \div g2) * (b[2] \div g1))
\* a / b for b # 0; the callers decide what the code does when b = 0
RDiv(a, b) == RMul(a, IF b[1] < 0 THEN <<-b[2], -b[1]>> ELSE <<b[2], b[1]>>)
RAbs(a) == <<Abs(a[1]), a[2]>>
RLt(a, b) ==
    LET g == GCD(a[2], b[2])
    IN  a[1] * (b[2] \div g) < b[1] * (a[2] \div g)
RLe(a, b) == ~RLt(b, a)
RMin(a, b) == IF RLt(b, a) THEN b ELSE a
IsZero(a) == a[1] = 0

\* the integer r with r * r <= x < (r + 1) * (r + 1), for lo * lo <= x < hi * hi
RECURSIVE ISqrtBetween(_, _, _)
ISqrtBetween(x, lo, hi) ==
    IF hi - lo <= 1 THEN lo
    ELSE LET mid == (lo + hi) \div 2
         IN  IF mid * mid <= x THEN ISqrtBetween(x, mid, hi)
             ELSE ISqrtBetween(x, lo, mid)

ISqrt(x) == ISqrtBetween(x, 0, IF x < 46340 THEN x + 1 ELSE 46340)

\* Math.sqrt on a non-negative rational, rounded down to 1/SqrtScale
RSqrt(a) ==
    Norm(ISqrt(a[1] * a[2] * SqrtScale * SqrtScale), a[2] * SqrtScale)

\* parseInt(x.toString()): the decimal digits before the point, so the value is
\* truncated toward zero (parseInt("-0.5") is -0, which is not < 0).
parseInt(a) ==
    IF a[1] >= 0 THEN a[1] \div a[2] ELSE -((-a[1]) \div a[2])

-----------------------------------------------------------------------------
(* Token.ts: the settlement ledger of one asset *)

RESERVE_WALLET_KEY == "ReserveWallet"

Accounts == Users \cup {RESERVE_WALLET_KEY}

\* Token._transfer(from, to, value) on one token's balances `bal`
\* (a function from the accounts that have a balance record to integers).
Token_transfer(bal, from, to, value) ==
    LET valueInt == parseInt(value)
        toCurrentBalance == IF to \in DOMAIN bal THEN bal[to] ELSE 0
    IN  IF from = to THEN [ok |-> FALSE, bal |-> bal]
        ELSE IF valueInt < 0 THEN [ok |-> FALSE, bal |-> bal]
        ELSE IF from \notin DOMAIN bal THEN [ok |-> FALSE, bal |-> bal]
        ELSE IF bal[from] < valueInt THEN [ok |-> FALSE, bal |-> bal]
        ELSE [ok |-> TRUE,
              bal |-> [a \in DOMAIN bal \cup {to} |->
                          IF a = from THEN bal[from] - valueInt
                          ELSE IF a = to THEN toCurrentBalance + valueInt
                          ELSE bal[a]]]

\* Token.Transfer(from, to, amount), the function the pool invokes on the
\* token chaincode of an asset; `unreachable` is the sub-call not arriving.
Transfer(bal, from, to, amount, unreachable) ==
    IF unreachable THEN [ok |-> FALSE, bal |-> bal]
    ELSE Token_transfer(bal, from, to, amount)

-----------------------------------------------------------------------------
(* LiquidityProviderContract: the registry of providers and earned fees *)

\* A value that is not a finite number (NaN, an infinity); JSON.stringify
\* stores it as null, and null counts as 0 in a later `+=`.
Null == <<0, 0>>

RECURSIVE SumAmounts(_, _)
SumAmounts(prov, S) ==
    IF S = {} THEN Zero
    ELSE LET u == CHOOSE x \in S : TRUE
         IN  RAdd(prov[u].amount, SumAmounts(prov, S \ {u}))

\* UpdateEarnedFees(user, fee) on the registry state `prov`
UpdateEarnedFees(prov, user, fee) ==
    IF user \notin DOMAIN prov THEN [ok |-> FALSE, prov |-> prov]
    ELSE LET earnedFees == prov[user].earnedFees
             updated == IF fee = Null THEN Null
                        ELSE IF earnedFees = Null THEN fee
                        ELSE RAdd(earnedFees, fee)
         IN  [ok |-> TRUE,
              prov |-> [prov EXCEPT ![user].earnedFees = updated]]

-----------------------------------------------------------------------------
(* LPContract.ts: class LiquidityPool *)

\* The world state a pool transaction runs against.
World ==
    [reserve |-> reserve, userContribution |-> userContribution,
     providers |-> providers, balance |-> balance, oracle |-> oracle]

FEE_RATE == <<3, 1000>>

\* The withdrawal fee rate written as a literal in RemoveLiquidity
WITHDRAW_FEE_RATE == <<3, 1000>>

\* The tolerance written as a literal in AddLiquidity's price check
RATIO_TOLERANCE == <<1, 100>>

\* The values a handler computes: ret is what it returns (Swap: amountOut),
\* raw and fee are Swap's pre-fee output and fee, minted is AddLiquidity's
\* lpTokensToMint, amountA and amountB are RemoveLiquidity's pre-fee amounts.
NoValues ==
    [ret |-> Zero, raw |-> Zero, fee |-> Zero, minted |-> Zero,
     amountA |-> Zero, amountB |-> Zero]

\* The outcome of a handler that threw at `site`: nothing of it is committed.
\* ev is the chaincode event the transaction set with ctx.stub.setEvent; no
\* handler of the pool calls it.
Thrown(w, site) ==
    [ok |-> FALSE, err |-> site, w |-> w, out |-> NoValues, ev |-> "none"]

\* The outcome of a handler that returned: w is the world state it wrote.
Returned(w, out) ==
    [ok |-> TRUE, err |-> "none", w |-> w, out |-> out, ev |-> "none"]

\* JSON.parse(getState(key).toString()) throws on a key that holds nothing:
\* the record can be read only when the key exists.
HasReserve(w) == RESERVE_WALLET_KEY \in DOMAIN w.reserve

\* a distribution that credits the whole fee to every provider
distributeFeesWhole(prov, fee, fault) ==
    IF fault = "list" THEN [ok |-> FALSE, prov |-> prov]
    ELSE IF fault = "credit" /\ DOMAIN prov # {} THEN [ok |-> FALSE, prov |-> prov]
    ELSE [ok |-> TRUE,
          prov |-> [u \in DOMAIN prov |-> UpdateEarnedFees(prov, u, fee).prov[u]]]

\* distributeFees(fee): credits every registered provider amount / total * fee.
\* fault "list": GetAllLiquidityProviders fails; "credit": UpdateEarnedFees fails.
distributeFees(prov, fee, fault) ==
    IF fault = "list" THEN [ok |-> FALSE, prov |-> prov]
    ELSE IF fault = "credit" /\ DOMAIN prov # {} THEN [ok |-> FALSE, prov |-> prov]
    ELSE LET totalLiquidity == SumAmounts(prov, DOMAIN prov)
             distributionAmount(u) ==
                 IF IsZero(totalLiquidity) THEN Null
                 ELSE RMul(RDiv(prov[u].amount, totalLiquidity), fee)
         IN  [ok |-> TRUE,
              prov |-> [u \in DOMAIN prov |->
                          UpdateEarnedFees(prov, u, distributionAmount(u)).prov[u]]]

\* getPriceFromOracle(token): OracleContract.GetCurrencyPrice, parsed by parseFloat
getPriceFromOracle(orc, token, unreachable) ==
    IF unreachable \/ token \notin DOMAIN orc THEN [ok |-> FALSE, price |-> Zero]
    ELSE [ok |-> TRUE, price |-> orc[token]]

\* Init(): writes {tokenA: 0, tokenB: 0} under the reserve key, whatever it held
LiquidityPoolInit(w) ==
    Returned([w EXCEPT !.reserve =
                 [k \in {RESERVE_WALLET_KEY} |-> [tokenA |-> Zero, tokenB |-> Zero]]],
             NoValues)

\* a Swap that takes the invariant after adding amountIn
SwapReserveLateInvariant(r, inputToken, amountIn) ==
    IF inputToken = "tokenA"
    THEN LET tokenA == RAdd(r.tokenA, amountIn)
             amountOut == RSub(r.tokenB, RDiv(RMul(tokenA, r.tokenB), tokenA))
         IN  [raw |-> amountOut,
              reserve |-> [tokenA |-> tokenA, tokenB |-> RSub(r.tokenB, amountOut)]]
    ELSE LET tokenB == RAdd(r.tokenB, amountIn)
             amountOut == RSub(r.tokenA, RDiv(RMul(r.tokenA, tokenB), tokenB))
         IN  [raw |-> amountOut,
              reserve |-> [tokenA |-> RSub(r.tokenA, amountOut), tokenB |-> tokenB]]

\* a Swap that takes only the post-fee amount out of the output-side reserve
SwapReserveKeepingFee(r, inputToken, amountIn) ==
    LET invariant == RMul(r.tokenA, r.tokenB)
        paid(amountOut) == RMul(amountOut, <<997, 1000>>)
    IN  IF inputToken = "tokenA"
        THEN LET tokenA == RAdd(r.tokenA, amountIn)
                 amountOut == RSub(r.tokenB, RDiv(invariant, tokenA))
             IN  [raw |-> amountOut,
                  reserve |-> [tokenA |-> tokenA,
                               tokenB |-> RSub(r.tokenB, paid(amountOut))]]
        ELSE LET tokenB == RAdd(r.tokenB, amountIn)
                 amountOut == RSub(r.tokenA, RDiv(invariant, tokenB))
             IN  [raw |-> amountOut,
                  reserve |-> [tokenA |-> RSub(r.tokenA, paid(amountOut)),
                               tokenB |-> tokenB]]

\* Swap, lines 205-215: the new reserve record and the raw output,
\* for a new input-side reserve that is not zero.
SwapReserve(r, inputToken, amountIn) ==
    LET invariant == RMul(r.tokenA, r.tokenB)
    IN  IF inputToken = "tokenA"
        THEN LET tokenA == RAdd(r.tokenA, amountIn)
                 amountOut == RSub(r.tokenB, RDiv(invariant, tokenA))
             IN  [raw |-> amountOut,
                  reserve |-> [tokenA |-> tokenA, tokenB |-> RSub(r.tokenB, amountOut)]]
        ELSE LET tokenB == RAdd(r.tokenB, amountIn)
                 amountOut == RSub(r.tokenA, RDiv(invariant, tokenB))
             IN  [raw |-> amountOut,
                  reserve |-> [tokenA |-> RSub(r.tokenA, amountOut), tokenB |-> tokenB]]

\* Swap, lines 218-219: the fee on the raw output
SwapFee(raw) == RMul(raw, FEE_RATE)

\* the input-side reserve after adding amountIn (any inputToken but "tokenA"
\* takes the else branch, that of tokenB)
NewInputReserve(r, inputToken, amountIn) ==
    IF inputToken = "tokenA" THEN RAdd(r.tokenA, amountIn)
    ELSE RAdd(r.tokenB, amountIn)

\* Swap, lines 222-267: the awaited sub-calls in order; the first that fails
\* throws out of Swap ("none": every one returned).
SwapSubcallErrorIgnoringPayout(df, debit, payout, fault) ==
    IF ~df.ok THEN (IF fault = "list" THEN "list" ELSE "credit")
    ELSE IF ~debit.ok THEN "debit"
    ELSE "none"

SwapSubcallError(df, debit, payout, fault) ==
    IF ~df.ok THEN (IF fault = "list" THEN "list" ELSE "credit")
    ELSE IF ~debit.ok THEN "debit"
    ELSE IF ~payout.ok THEN "payout"
    ELSE "none"

\* Swap(userId, inputToken, amountIn).  A new input-side reserve of zero makes
\* the division yield NaN or an infinity: the payout transfer then throws
\* (parseInt gives NaN, Token.sub reports an overflow).
Swap(w, userId, inputToken, amountIn, fault) ==
    IF ~HasReserve(w) THEN Thrown(w, "reserve")
    ELSE
    LET r == w.reserve[RESERVE_WALLET_KEY]
        nonFinite == IsZero(NewInputReserve(r, inputToken, amountIn))
        sr == IF nonFinite THEN [raw |-> Zero, reserve |-> r]
              ELSE SwapReserve(r, inputToken, amountIn)
        fee == SwapFee(sr.raw)
        amountOut == RSub(sr.raw, fee)
        inTok == IF inputToken = "tokenA" THEN "tokenA" ELSE "tokenB"
        outTok == IF inputToken = "tokenA" THEN "tokenB" ELSE "tokenA"
        df == distributeFees(w.providers, fee, fault)
        debit == Transfer(w.balance[inTok], userId, RESERVE_WALLET_KEY,
                          amountIn, fault = "debit")
        payout == Transfer(w.balance[outTok], RESERVE_WALLET_KEY, userId,
                           amountOut, fault = "payout" \/ nonFinite)
        site == SwapSubcallError(df, debit, payout, fault)
    IN  IF site # "none" THEN Thrown(w, site)
        ELSE Returned(
               [w EXCEPT !.reserve = [k \in {RESERVE_WALLET_KEY} |-> sr.reserve],
                         !.providers = df.prov,
                         !.balance = [t \in DOMAIN w.balance |->
                                        IF t = inTok THEN debit.bal ELSE payout.bal]],
               [NoValues EXCEPT !.ret = amountOut, !.raw = sr.raw, !.fee = fee])

\* AddLiquidity, lines 100-109: the LP tokens minted against the stored reserve
LpTokensToMint(totalReserve, amountA, amountB) ==
    IF IsZero(totalReserve.tokenA) \/ IsZero(totalReserve.tokenB)
    THEN RSqrt(RMul(amountA, amountB))
    ELSE RMin(RDiv(amountA, totalReserve.tokenA), RDiv(amountB, totalReserve.tokenB))

\* AddLiquidity, lines 119-136: the position record after the deposit; the
\* record is parsed from the stored bytes, so it must exist.
UpdatedContribution(uc, amountA, amountB, lpTokensToMint) ==
    [contributionA |-> RAdd(uc.contributionA, amountA),
     contributionB |-> RAdd(uc.contributionB, amountB),
     lpTokens |-> RAdd(uc.lpTokens, lpTokensToMint)]

\* AddLiquidity, lines 73-93: the two awaited transfers; the first that fails
\* throws out of AddLiquidity.
AddTransferErrorIgnoringB(tA, tB) ==
    IF ~tA.ok THEN "transferA" ELSE "none"

AddTransferError(tA, tB) ==
    IF ~tA.ok THEN "transferA"
    ELSE IF ~tB.ok THEN "transferB"
    ELSE "none"

\* AddLiquidity(userId, amountA, amountB)
AddLiquidity(w, userId, amountA, amountB, fault) ==
    LET pA == getPriceFromOracle(w.oracle, "tokenA", fault = "priceA")
        pB == getPriceFromOracle(w.oracle, "tokenB", fault = "priceB")
    IN  IF ~pA.ok THEN Thrown(w, "priceA")
        ELSE IF ~pB.ok THEN Thrown(w, "priceB")
        ELSE IF RLt(RATIO_TOLERANCE,
                    RAbs(RSub(RMul(amountA, pA.price), RMul(amountB, pB.price))))
        THEN Thrown(w, "ratio")
        ELSE
        LET tA == Transfer(w.balance["tokenA"], userId, RESERVE_WALLET_KEY,
                           amountA, fault = "transferA")
            tB == Transfer(w.balance["tokenB"], userId, RESERVE_WALLET_KEY,
                           amountB, fault = "transferB")
            site == AddTransferError(tA, tB)
        IN  IF site # "none" THEN Thrown(w, site)
            ELSE IF ~HasReserve(w) THEN Thrown(w, "reserve")
            ELSE
            LET totalReserve == w.reserve[RESERVE_WALLET_KEY]
                lpTokensToMint == LpTokensToMint(totalReserve, amountA, amountB)
                newReserve == [tokenA |-> RAdd(totalReserve.tokenA, amountA),
                               tokenB |-> RAdd(totalReserve.tokenB, amountB)]
            IN  IF userId \notin DOMAIN w.userContribution
                THEN Thrown(w, "position")
                ELSE Returned(
                       [w EXCEPT
                          !.reserve = [k \in {RESERVE_WALLET_KEY} |-> newReserve],
                          !.userContribution[userId] =
                              UpdatedContribution(w.userContribution[userId],
                                                  amountA, amountB, lpTokensToMint),
                          !.balance = [t \in DOMAIN w.balance |->
                                         IF t = "tokenA" THEN tA.bal ELSE tB.bal]],
                       [NoValues EXCEPT !.minted = lpTokensToMint])

\* a RemoveLiquidity that lets any lpAmount through
InsufficientLpTokensNever(uc, lpAmount) == FALSE

\* RemoveLiquidity, line 292: userContribution.lpTokens < lpAmount
InsufficientLpTokens(uc, lpAmount) == RLt(uc.lpTokens, lpAmount)

\* a RemoveLiquidity that returns the whole contribution whatever lpAmount is
RemovalAmountsWhole(uc, lpAmount) ==
    [amountA |-> uc.contributionA, amountB |-> uc.contributionB]

\* RemoveLiquidity, lines 296-302: the pre-fee amounts, for lpTokens # 0
RemovalAmounts(uc, lpAmount) ==
    LET proportion == RDiv(lpAmount, uc.lpTokens)
    IN  [amountA |-> RMul(uc.contributionA, proportion),
         amountB |-> RMul(uc.contributionB, proportion)]

\* RemoveLiquidity(userId, lpAmount).  With lpTokens = 0 the proportion is NaN
\* or an infinity and the first transfer throws.
RemoveLiquidity(w, userId, lpAmount, fault) ==
    IF ~HasReserve(w) THEN Thrown(w, "reserve")
    ELSE IF userId \notin DOMAIN w.userContribution THEN Thrown(w, "position")
    ELSE
    LET totalReserve == w.reserve[RESERVE_WALLET_KEY]
        uc == w.userContribution[userId]
    IN  IF InsufficientLpTokens(uc, lpAmount) THEN Thrown(w, "insufficient")
        ELSE IF IsZero(uc.lpTokens) THEN Thrown(w, "transferA")
        ELSE
        LET am == RemovalAmounts(uc, lpAmount)
            feeA == RMul(am.amountA, WITHDRAW_FEE_RATE)
            feeB == RMul(am.amountB, WITHDRAW_FEE_RATE)
            tA == Transfer(w.balance["tokenA"], RESERVE_WALLET_KEY, userId,
                           RSub(am.amountA, feeA), fault = "transferA")
            tB == Transfer(w.balance["tokenB"], RESERVE_WALLET_KEY, userId,
                           RSub(am.amountB, feeB), fault = "transferB")
        IN  IF ~tA.ok THEN Thrown(w, "transferA")
            ELSE IF ~tB.ok THEN Thrown(w, "transferB")
            ELSE Returned(
                   [w EXCEPT
                      !.reserve = [k \in {RESERVE_WALLET_KEY} |->
                                     [tokenA |-> RSub(totalReserve.tokenA, am.amountA),
                                      tokenB |-> RSub(totalReserve.tokenB, am.amountB)]],
                      !.userContribution[userId] =
                          [contributionA |-> RSub(uc.contributionA, am.amountA),
                           contributionB |-> RSub(uc.contributionB, am.amountB),
                           lpTokens |-> RSub(uc.lpTokens, lpAmount)],
                      !.balance = [t \in DOMAIN w.balance |->
                                     IF t = "tokenA" THEN tA.bal ELSE tB.bal]],
                   [NoValues EXCEPT !.amountA = am.amountA, !.amountB = am.amountB])

\* GetReserve(token): reads the reserve record, writes nothing
GetReserve(w, token) ==
    IF ~HasReserve(w) THEN Thrown(w, "reserve")
    ELSE IF token = "tokenA"
    THEN Returned(w, [NoValues EXCEPT !.ret = w.reserve[RESERVE_WALLET_KEY].tokenA])
    ELSE IF token = "tokenB"
    THEN Returned(w, [NoValues EXCEPT !.ret = w.reserve[RESERVE_WALLET_KEY].tokenB])
    ELSE Thrown(w, "token")

-----------------------------------------------------------------------------
(* The transactions submitted to the pool *)

Tokens == {"tokenA", "tokenB"}

\* amountIn is not validated by Swap: Spec also submits an amount below zero
SwapAmounts == {Rat(100), Rat(50)}
UnvalidatedSwapAmounts == {Rat(100), <<-1, 2>>}
SwapFaults == {"none", "list", "credit", "debit", "payout"}

AddAmounts == {<<Rat(100), Rat(100)>>, <<Rat(50), Rat(50)>>, <<Rat(100), Rat(50)>>}
AddFaults == {"none", "priceA", "priceB", "transferA", "transferB"}

\* lpAmount is not validated by RemoveLiquidity
LpAmounts == {<<1, 2>>, Rat(100), <<-1, 2>>}
RemoveFaults == {"none", "transferA", "transferB"}

GetReserveTokens == {"tokenA", "tokenB", "tokenC"}

EmptyRecord == [k \in {} |-> Zero]

\* what is recorded of a transaction: on a throw only the handler and the site
Observed(op, user, token, a, b, r) ==
    IF r.ok
    THEN [op |-> op, ok |-> TRUE, err |-> r.err, user |-> user, token |-> token,
          a |-> a, b |-> b, out |-> r.out, event |-> r.ev]
    ELSE [op |-> op, ok |-> FALSE, err |-> r.err, user |-> "", token |-> "",
          a |-> Zero, b |-> Zero, out |-> NoValues, event |-> r.ev]

\* the transaction commits the world state of its outcome
Commit(op, user, token, a, b, r) ==
    /\ steps < MaxSteps
    /\ steps' = steps + 1
    /\ reserve' = r.w.reserve
    /\ userContribution' = r.w.userContribution
    /\ providers' = r.w.providers
    /\ balance' = r.w.balance
    /\ oracle' = r.w.oracle
    /\ last' = Observed(op, user, token, a, b, r)
    /\ UNCHANGED <<baskets, cbdc, others>>

DoInit == Commit("Init", "", "", Zero, Zero, LiquidityPoolInit(World))

DoAddLiquidity ==
    \E u \in Users, am \in AddAmounts, f \in AddFaults :
        Commit("AddLiquidity", u, "", am[1], am[2],
               AddLiquidity(World, u, am[1], am[2], f))

DoSwap(amounts) ==
    \E u \in Users, t \in Tokens, am \in amounts, f \in SwapFaults :
        Commit("Swap", u, t, am, Zero, Swap(World, u, t, am, f))

DoRemoveLiquidity ==
    \E u \in Users, lp \in LpAmounts, f \in RemoveFaults :
        Commit("RemoveLiquidity", u, "", lp, Zero,
               RemoveLiquidity(World, u, lp, f))

DoGetReserve ==
    \E t \in GetReserveTokens :
        Commit("GetReserve", "", t, Zero, Zero, GetReserve(World, t))

Next ==
    \/ DoInit
    \/ DoAddLiquidity
    \/ DoSwap(UnvalidatedSwapAmounts)
    \/ DoRemoveLiquidity
    \/ DoGetReserve

\* the transactions submitted to a provisioned pool: validated amounts
NextProvisioned ==
    \/ DoInit
    \/ DoAddLiquidity
    \/ DoSwap(SwapAmounts)
    \/ DoRemoveLiquidity
    \/ DoGetReserve

-----------------------------------------------------------------------------
(* Initial states *)

NoCall ==
    [op |-> "none", ok |-> TRUE, err |-> "none", user |-> "", token |-> "",
     a |-> Zero, b |-> Zero, out |-> NoValues]

\* The collaborators (token ledgers, registry, oracle) are deployed and used
\* before the pool: their state is any their own transactions produce.
InitialLedgers ==
    { [t \in Tokens |-> [a \in Users |-> 200]],
      [t \in Tokens |-> [a \in Accounts |-> IF a \in Users THEN 200 ELSE 50]] }

InitialRegistries ==
    { EmptyRecord,
      [u \in Users |-> [amount |-> IF u = "u1" THEN Rat(30) ELSE Rat(70),
                        earnedFees |-> Zero]] }

InitialOracles == { [t \in Tokens |-> Rat(1)] }

\* the basket chaincode as deployed (no key written yet) and the ledgers of
\* its assets
NoBaskets == [k \in {} |-> Zero]

InitBasketLedgers ==
    /\ baskets = NoBaskets
    /\ cbdc = [c \in {"alpha", "beta"} |->
                 [a \in Users \cup {"reserveWallet"} |->
                     IF a \in Users THEN 200 ELSE 4]]

\* PayCrow after InitLedger, which stores the order "0000", and after u1 and
\* u2 were minted 100 each
InitialPayCrow ==
    [initialized |-> TRUE,
     bal |-> [a \in Users |-> Rat(100)],
     orders |-> [id \in {"0000"} |->
                    [Amount |-> Rat(100), Account |-> "TEST2", Status |-> "Pending",
                     CustomTransferOnEvent |-> <<>>]],
     moved |-> [id \in {"0000"} |-> Zero],
     paid |-> [id \in {"0000"} |-> Zero]]

\* The DAO after RegisterCountry("c1"), RegisterCountry("c2") and one
\* AddCountryMember for each: m1 is ADMIN of c1 and m2 is VOTER of c2
InitialDAO ==
    [countries |-> [c \in {"c1", "c2"} |->
                       [members |-> << [memberId |-> IF c = "c1" THEN "m1" ELSE "m2",
                                        role |-> IF c = "c1" THEN "ADMIN" ELSE "VOTER"] >>]],
     proposals |-> [k \in {} |-> Zero],
     now |-> 1]

\* nothing has been endorsed or ordered yet
InitOthers ==
    /\ version = 0
    /\ pending = {}
    /\ ledger = [initialized |-> FALSE, supply |-> EmptyRecord,
                 bal |-> EmptyRecord, allowance |-> EmptyRecord]
    /\ paycrow = InitialPayCrow
    /\ dao = InitialDAO

InitCollaborators ==
    /\ balance \in InitialLedgers
    /\ oracle \in InitialOracles
    /\ InitBasketLedgers
    /\ InitOthers
    /\ last = NoCall
    /\ steps = 0

\* the pool chaincode as deployed: no key written yet
Init ==
    /\ reserve = EmptyRecord
    /\ userContribution = EmptyRecord
    /\ providers \in InitialRegistries
    /\ InitCollaborators

Spec == Init /\ [][Next]_vars

\* A pool whose Init() ran and whose position records exist (all zero): the
\* state from which a deposit gets past the read of the position record.
ZeroContribution ==
    [contributionA |-> Zero, contributionB |-> Zero, lpTokens |-> Zero]

InitProvisioned ==
    /\ reserve = [k \in {RESERVE_WALLET_KEY} |-> [tokenA |-> Zero, tokenB |-> Zero]]
    /\ userContribution = [u \in Users |-> ZeroContribution]
    /\ providers = EmptyRecord
    /\ InitCollaborators

SpecProvisioned == InitProvisioned /\ [][NextProvisioned]_vars

-----------------------------------------------------------------------------
(* The registry's own transaction and the fee distribution on their own *)

\* the fees distributed and credited: UpdateEarnedFees validates nothing
DistributedFees == {Rat(10), <<3, 10>>}
CreditedFees == {Rat(3), Rat(-5)}
DistributeFaults == {"none", "list", "credit"}

\* distributeFees(fee) run as the whole of a transaction
DoDistributeFees ==
    \E fee \in DistributedFees, f \in DistributeFaults :
        LET df == distributeFees(providers, fee, f)
        IN  Commit("distributeFees", "", "", fee, Zero,
                   IF df.ok THEN Returned([World EXCEPT !.providers = df.prov], NoValues)
                   ELSE Thrown(World, f))

\* LiquidityProviderContract.UpdateEarnedFees(user, fee) submitted by a client
DoUpdateEarnedFees ==
    \E u \in Users, fee \in CreditedFees :
        LET up == UpdateEarnedFees(providers, u, fee)
        IN  Commit("UpdateEarnedFees", u, "", fee, Zero,
                   IF up.ok THEN Returned([World EXCEPT !.providers = up.prov], NoValues)
                   ELSE Thrown(World, "provider"))

\* deposits and withdrawals beside fee credits; the credit a Swap makes is
\* DoDistributeFees with the fee drawn from DistributedFees
NextFees ==
    \/ DoAddLiquidity
    \/ DoRemoveLiquidity
    \/ DoDistributeFees
    \/ DoUpdateEarnedFees

\* a provisioned pool beside a registry that may hold providers
InitFees ==
    /\ reserve = [k \in {RESERVE_WALLET_KEY} |-> [tokenA |-> Zero, tokenB |-> Zero]]
    /\ userContribution = [u \in Users |-> ZeroContribution]
    /\ providers \in InitialRegistries
    /\ InitCollaborators

SpecFees == InitFees /\ [][NextFees]_vars

-----------------------------------------------------------------------------
(* order.ts: class BasketContract *)

reserveWallet == "reserveWallet"

\* Array.prototype.indexOf: the 0-based index of the first match, -1 if none
indexOf(seq, x) ==
    IF \E i \in 1..Len(seq) : seq[i] = x
    THEN (CHOOSE i \in 1..Len(seq) :
              seq[i] = x /\ \A k \in 1..(i - 1) : seq[k] # x) - 1
    ELSE -1

\* SwapCBDCs, lines 143-147: the inner loop over j from position j on; Null
\* once a division by a zero reserve has left the finite numbers
RECURSIVE InvariantInner(_, _, _, _)
InvariantInner(D, Reserves, i, j) ==
    IF j > Len(Reserves) \/ D = Null THEN D
    ELSE IF i = j THEN InvariantInner(D, Reserves, i, j + 1)
    ELSE IF IsZero(Reserves[j]) THEN Null
    ELSE InvariantInner(RMul(D, RAdd(Rat(1), RDiv(Reserves[i], Reserves[j]))),
                        Reserves, i, j + 1)

\* SwapCBDCs, lines 140-148 (and 154-162): the outer loop over i from position i on
RECURSIVE InvariantOuter(_, _, _)
InvariantOuter(D, Reserves, i) ==
    IF i > Len(Reserves) \/ D = Null THEN D
    ELSE InvariantOuter(InvariantInner(RAdd(D, Reserves[i]), Reserves, i, 1),
                        Reserves, i + 1)

\* D_before / D_after as the code computes them
SwapInvariant(Reserves) == InvariantOuter(Zero, Reserves, 1)

\* the outcome of a basket transaction: bk and led are the states it wrote
\* and ev the event it set: no handler of the basket calls setEvent
BasketThrown(site) ==
    [ok |-> FALSE, err |-> site, bk |-> baskets, led |-> cbdc, out |-> NoValues,
     ev |-> "none"]
BasketReturned(bk, led, out) ==
    [ok |-> TRUE, err |-> "none", bk |-> bk, led |-> led, out |-> out,
     ev |-> "none"]

\* InitBasket(initBasket): stores the parsed descriptor under its ID
InitBasket(descriptor) ==
    BasketReturned([k \in DOMAIN baskets \cup {descriptor.ID} |->
                       IF k = descriptor.ID THEN descriptor ELSE baskets[k]],
                   cbdc, NoValues)

\* the ledger both transfers of SwapCBDCs are sent to
SwapDebitLedger(fromCBDC, toCBDC) == "alpha"
SwapCreditLedger(fromCBDC, toCBDC) == "alpha"

\* a variant that lets the swap go on after the transfer to the user failed
SwapTransferErrorIgnoringCredit(debit, credit) ==
    IF ~debit.ok THEN "debit" ELSE "none"

\* SwapCBDCs, lines 170-186: the transfer whose failure ends the transaction
SwapTransferError(debit, credit) ==
    IF ~debit.ok THEN "debit"
    ELSE IF ~credit.ok THEN "credit"
    ELSE "none"

\* SwapCBDCs(amount, fromCBDC, toCBDC, user)
SwapCBDCs(amount, fromCBDC, toCBDC, user, fault) ==
    IF "basket1" \notin DOMAIN baskets THEN BasketThrown("basket")
    ELSE
    LET basket == baskets["basket1"]
        fromIndex == indexOf(basket.Tokens, fromCBDC)
        toIndex == indexOf(basket.Tokens, toCBDC)
    IN  IF fromIndex = -1 \/ toIndex = -1 THEN BasketThrown("unsupported")
        ELSE
        LET D_before == SwapInvariant(basket.Reserves)
            reduced == [basket.Reserves EXCEPT
                           ![fromIndex + 1] = RSub(@, amount)]
            D_after == SwapInvariant(reduced)
            nonFinite == D_before = Null \/ D_after = Null
            toAmount == IF nonFinite THEN Zero ELSE RSub(D_before, D_after)
            newReserves == [reduced EXCEPT ![toIndex + 1] = RAdd(@, toAmount)]
            debitOn == SwapDebitLedger(fromCBDC, toCBDC)
            debit == Transfer(cbdc[debitOn], user, reserveWallet, amount,
                              fault = "debit")
            afterDebit == [cbdc EXCEPT ![debitOn] = debit.bal]
            creditOn == SwapCreditLedger(fromCBDC, toCBDC)
            credit == Transfer(afterDebit[creditOn], reserveWallet, user, toAmount,
                               fault = "credit" \/ nonFinite)
            failed == SwapTransferError(debit, credit)
        IN  IF failed # "none" THEN BasketThrown(failed)
            ELSE BasketReturned(
                   [baskets EXCEPT !["basket1"].Reserves = newReserves],
                   [afterDebit EXCEPT ![creditOn] = credit.bal],
                   [NoValues EXCEPT !.ret = toAmount])

\* the descriptors submitted to InitBasket and the arguments of SwapCBDCs
BasketDescriptor(id, r1, r2) ==
    [ID |-> id, Tokens |-> <<"alpha", "beta">>,
     Reserves |-> <<Rat(r1), Rat(r2)>>, Buffers |-> <<Zero, Zero>>,
     Weights |-> <<Rat(1), Rat(1)>>, Prices |-> <<Rat(1), Rat(1)>>]

BasketDescriptors ==
    { BasketDescriptor("basket1", 2, 2),
      BasketDescriptor("basket1", 4, 2),
      BasketDescriptor("basket2", 4, 2) }

BasketAssets == {"alpha", "beta", "gamma"}
BasketSwapAmounts == {Rat(1)}
BasketSwapFaults == {"none", "debit", "credit"}

ObservedBasket(op, user, from, to, amount, r) ==
    IF r.ok
    THEN [op |-> op, ok |-> TRUE, err |-> r.err, user |-> user, token |-> from,
          to |-> to, a |-> amount, b |-> Zero, out |-> r.out, event |-> r.ev]
    ELSE [op |-> op, ok |-> FALSE, err |-> r.err, user |-> "", token |-> "",
          to |-> "", a |-> Zero, b |-> Zero, out |-> NoValues, event |-> r.ev]

CommitBasket(op, user, from, to, amount, r) ==
    /\ steps < MaxSteps
    /\ steps' = steps + 1
    /\ baskets' = r.bk
    /\ cbdc' = r.led
    /\ last' = ObservedBasket(op, user, from, to, amount, r)
    /\ UNCHANGED <<reserve, userContribution, providers, balance, oracle, others>>

DoInitBasket ==
    \E d \in BasketDescriptors :
        CommitBasket("InitBasket", "", d.ID, "", Zero, InitBasket(d))

DoSwapCBDCs ==
    \E am \in BasketSwapAmounts, from \in BasketAssets, to \in BasketAssets,
       u \in Users, f \in BasketSwapFaults :
        CommitBasket("SwapCBDCs", u, from, to, am, SwapCBDCs(am, from, to, u, f))

NextBasket ==
    \/ DoInitBasket
    \/ DoSwapCBDCs

SpecBasket == Init /\ [][NextBasket]_vars

-----------------------------------------------------------------------------
(* order.ts: the other transactions of BasketContract *)

\* ReadBasket(): the stored record, or an error when the key was never written
ReadBasket ==
    IF "basket1" \notin DOMAIN baskets THEN BasketThrown("basket")
    ELSE BasketReturned(baskets, cbdc,
                        [NoValues EXCEPT !.ret = baskets["basket1"]])

\* UpdateReserves(updatedReserves): replaces the Reserves list by its argument
UpdateReserves(updatedReserves) ==
    IF "basket1" \notin DOMAIN baskets THEN BasketThrown("basket")
    ELSE BasketReturned([baskets EXCEPT !["basket1"].Reserves = updatedReserves],
                        cbdc, NoValues)

\* a variant of the price loop that stops at the first lookup that fails
\* and keeps the prices read before it
RECURSIVE FetchPricesKeepingRead(_, _, _, _, _)
FetchPricesKeepingRead(assets, Prices, orc, i, faultAt) ==
    IF i > Len(assets) THEN [ok |-> TRUE, Prices |-> Prices]
    ELSE LET priceResponse == getPriceFromOracle(orc, assets[i], faultAt = i)
         IN  IF ~priceResponse.ok THEN [ok |-> TRUE, Prices |-> Prices]
             ELSE FetchPricesKeepingRead(assets,
                      [Prices EXCEPT ![i] = priceResponse.price],
                      orc, i + 1, faultAt)

\* UpdateBasketPrices, lines 105-115: the loop over the basket's tokens from
\* position i on; faultAt is the lookup (if any) that does not come back
RECURSIVE FetchPrices(_, _, _, _, _)
FetchPrices(assets, Prices, orc, i, faultAt) ==
    IF i > Len(assets) THEN [ok |-> TRUE, Prices |-> Prices]
    ELSE LET priceResponse == getPriceFromOracle(orc, assets[i], faultAt = i)
         IN  IF ~priceResponse.ok THEN [ok |-> FALSE, Prices |-> Prices]
             ELSE FetchPrices(assets, [Prices EXCEPT ![i] = priceResponse.price],
                              orc, i + 1, faultAt)

\* UpdateBasketPrices()
UpdateBasketPrices(faultAt) ==
    IF "basket1" \notin DOMAIN baskets THEN BasketThrown("basket")
    ELSE
    LET basket == baskets["basket1"]
        fetched == FetchPrices(basket.Tokens, basket.Prices, oracle, 1, faultAt)
    IN  IF ~fetched.ok THEN BasketThrown("oracle")
        ELSE BasketReturned([baskets EXCEPT !["basket1"].Prices = fetched.Prices],
                            cbdc, NoValues)

\* invokeChaincode(token, ["Transfer", from, to, amount]): a chaincode that is
\* not deployed, or a call that does not come back, is a failed transfer
TransferOn(led, token, from, to, amount, unreachable) ==
    IF token \notin DOMAIN led THEN [ok |-> FALSE, led |-> led]
    ELSE LET t == Transfer(led[token], from, to, amount, unreachable)
         IN  [ok |-> t.ok, led |-> [led EXCEPT ![token] = t.bal]]

\* a variant of the deposit loop that goes on after a transfer failed
RECURSIVE DepositAllIgnoringFailure(_, _, _, _, _, _, _)
DepositAllIgnoringFailure(assets, Reserves, led, amounts, user, i, faultAt) ==
    IF i > Len(assets) THEN [ok |-> TRUE, Reserves |-> Reserves, led |-> led]
    ELSE LET tokenTransfer == TransferOn(led, assets[i], user, reserveWallet,
                                         amounts[i], faultAt = i)
         IN  DepositAllIgnoringFailure(assets,
                        [Reserves EXCEPT ![i] = RAdd(@, amounts[i])],
                        tokenTransfer.led, amounts, user, i + 1, faultAt)

\* AddLiquidity, lines 224-235: the loop over the basket's tokens from
\* position i on
RECURSIVE DepositAll(_, _, _, _, _, _, _)
DepositAll(assets, Reserves, led, amounts, user, i, faultAt) ==
    IF i > Len(assets) THEN [ok |-> TRUE, Reserves |-> Reserves, led |-> led]
    ELSE LET tokenTransfer == TransferOn(led, assets[i], user, reserveWallet,
                                         amounts[i], faultAt = i)
         IN  IF ~tokenTransfer.ok
             THEN [ok |-> FALSE, Reserves |-> Reserves, led |-> led]
             ELSE DepositAll(assets, [Reserves EXCEPT ![i] = RAdd(@, amounts[i])],
                             tokenTransfer.led, amounts, user, i + 1, faultAt)

\* AddLiquidity(amounts, user) of the basket
BasketAddLiquidity(amounts, user, faultAt) ==
    IF "basket1" \notin DOMAIN baskets THEN BasketThrown("basket")
    ELSE
    LET basket == baskets["basket1"]
    IN  IF Len(amounts) # Len(basket.Tokens) THEN BasketThrown("mismatch")
        ELSE
        LET deposited == DepositAll(basket.Tokens, basket.Reserves, cbdc,
                                    amounts, user, 1, faultAt)
        IN  IF ~deposited.ok THEN BasketThrown("transfer")
            ELSE BasketReturned(
                   [baskets EXCEPT !["basket1"].Reserves = deposited.Reserves],
                   deposited.led, NoValues)

\* LiquidityProviderContract.GetLiquidityProvider(user)
GetLiquidityProvider(prov, user) ==
    IF user \notin DOMAIN prov THEN [ok |-> FALSE, provider |-> EmptyRecord]
    ELSE [ok |-> TRUE, provider |-> prov[user]]

\* the outcome of a basket transaction that also writes to the registry
WithRegistry(r, prov) ==
    [ok |-> r.ok, err |-> r.err, bk |-> r.bk, led |-> r.led, out |-> r.out,
     ev |-> r.ev, prov |-> prov]

\* RemoveLiquidity, lines 255-276 (part_006, lines 268-288): the earned fees
\* are paid on the "alpha" ledger and the registry entry is reset; bk and led
\* are the basket and the ledgers as the transaction has them so far
PayEarnedFees(bk, led, user, fault) ==
    LET found == GetLiquidityProvider(providers, user)
    IN  IF fault = "registry" \/ ~found.ok
        THEN WithRegistry(BasketThrown("provider"), providers)
        ELSE
        LET provider == found.provider
            paid == IF provider.earnedFees = Null
                    THEN [ok |-> FALSE, led |-> led]
                    ELSE TransferOn(led, "alpha", reserveWallet, user,
                                    provider.earnedFees, fault = "payout")
            reset == IF provider.earnedFees = Null
                     THEN [ok |-> FALSE, prov |-> providers]
                     ELSE UpdateEarnedFees(providers, user,
                                           RNeg(provider.earnedFees))
        IN  IF ~paid.ok THEN WithRegistry(BasketThrown("payout"), providers)
            ELSE IF fault = "reset" \/ ~reset.ok
            THEN WithRegistry(BasketThrown("reset"), providers)
            ELSE WithRegistry(
                   BasketReturned(bk, paid.led,
                                  [NoValues EXCEPT !.fee = provider.earnedFees]),
                   reset.prov)

\* RemoveLiquidity(percentage, user) of the basket, as order.ts has it
BasketRemoveLiquidity(percentage, user, fault) ==
    IF RLe(percentage, Zero) \/ RLt(Rat(100), percentage)
    THEN WithRegistry(BasketThrown("percentage"), providers)
    ELSE IF "basket1" \notin DOMAIN baskets
    THEN WithRegistry(BasketThrown("basket"), providers)
    ELSE PayEarnedFees(baskets, cbdc, user, fault)

\* part_006, RemoveLiquidity, lines 253-266: the loop over the basket's tokens
\* from position i on
RECURSIVE WithdrawAll(_, _, _, _, _, _, _)
WithdrawAll(assets, Reserves, led, percentage, user, i, fault) ==
    IF i > Len(assets) THEN [ok |-> TRUE, Reserves |-> Reserves, led |-> led]
    ELSE LET removalAmount == RMul(RDiv(percentage, Rat(100)), Reserves[i])
             tokenTransfer == TransferOn(led, assets[i], reserveWallet, user,
                                         removalAmount, fault = "transfer")
         IN  IF ~tokenTransfer.ok
             THEN [ok |-> FALSE, Reserves |-> Reserves, led |-> led]
             ELSE WithdrawAll(assets,
                              [Reserves EXCEPT ![i] = RSub(@, removalAmount)],
                              tokenTransfer.led, percentage, user, i + 1, fault)

\* RemoveLiquidity(percentage, user) of the basket, as part_006 has it
BasketRemoveLiquidityWithTransfers(percentage, user, fault) ==
    IF RLe(percentage, Zero) \/ RLt(Rat(100), percentage)
    THEN WithRegistry(BasketThrown("percentage"), providers)
    ELSE IF "basket1" \notin DOMAIN baskets
    THEN WithRegistry(BasketThrown("basket"), providers)
    ELSE
    LET basket == baskets["basket1"]
        withdrawn == WithdrawAll(basket.Tokens, basket.Reserves, cbdc,
                                 percentage, user, 1, fault)
    IN  IF ~withdrawn.ok THEN WithRegistry(BasketThrown("transfer"), providers)
        ELSE PayEarnedFees(
               [baskets EXCEPT !["basket1"].Reserves = withdrawn.Reserves],
               withdrawn.led, user, fault)

-----------------------------------------------------------------------------
(* RiskManagementContract: predicates over the record stored under "basket1" *)

RECURSIVE SumReserves(_, _)
SumReserves(Reserves, i) ==
    IF i > Len(Reserves) THEN Zero
    ELSE RAdd(Reserves[i], SumReserves(Reserves, i + 1))

\* a variant of the reserve check that also fails a reserve equal to the threshold
CheckReserveThresholdStrict(threshold) ==
    IF "basket1" \notin DOMAIN baskets THEN BasketThrown("basket")
    ELSE LET basket == baskets["basket1"]
         IN  BasketReturned(baskets, cbdc,
               [NoValues EXCEPT !.ret =
                   ~ \E i \in 1..Len(basket.Reserves) :
                         RLe(basket.Reserves[i], threshold)])

\* CheckReserveThreshold(threshold)
CheckReserveThreshold(threshold) ==
    IF "basket1" \notin DOMAIN baskets THEN BasketThrown("basket")
    ELSE LET basket == baskets["basket1"]
         IN  BasketReturned(baskets, cbdc,
               [NoValues EXCEPT !.ret =
                   ~ \E i \in 1..Len(basket.Reserves) :
                         RLt(basket.Reserves[i], threshold)])

\* reserve / totalValue > exposureLimit in floating point: 0 / 0 is NaN and
\* compares false, x / 0 is an infinity of the sign of x
ExceedsExposure(res, totalValue, exposureLimit) ==
    IF IsZero(totalValue)
    THEN RLt(Zero, res)
    ELSE RLt(exposureLimit, RDiv(res, totalValue))

\* a variant of the exposure check that keeps the sum it computed in the record
CheckBasketExposureStoringTotal(exposureLimit) ==
    IF "basket1" \notin DOMAIN baskets THEN BasketThrown("basket")
    ELSE LET basket == baskets["basket1"]
             totalValue == SumReserves(basket.Reserves, 1)
         IN  BasketReturned(
               [baskets EXCEPT !["basket1"].Buffers = <<totalValue>>], cbdc,
               [NoValues EXCEPT !.ret =
                   ~ \E i \in 1..Len(basket.Reserves) :
                         ExceedsExposure(basket.Reserves[i], totalValue,
                                         exposureLimit)])

\* CheckBasketExposure(exposureLimit)
CheckBasketExposure(exposureLimit) ==
    IF "basket1" \notin DOMAIN baskets THEN BasketThrown("basket")
    ELSE LET basket == baskets["basket1"]
             totalValue == SumReserves(basket.Reserves, 1)
         IN  BasketReturned(baskets, cbdc,
               [NoValues EXCEPT !.ret =
                   ~ \E i \in 1..Len(basket.Reserves) :
                         ExceedsExposure(basket.Reserves[i], totalValue,
                                         exposureLimit)])

\* CheckAssetVolatility() of RiskManagementContract.ts: no read, no lookup
CheckAssetVolatility ==
    BasketReturned(baskets, cbdc, [NoValues EXCEPT !.ret = TRUE])

\* invokeChaincode(oracleContractName, ["GetPreviousCurrencyPrice", token]):
\* OracleContract has no transaction of that name, so the call is an error
GetPreviousCurrencyPrice(orc, token) == [ok |-> FALSE, price |-> Zero]

\* part_004, CheckAssetVolatility, lines 62-85: the loop over the basket's
\* tokens from position i on; "fail", "volatile" or "calm"
RECURSIVE VolatilityFrom(_, _, _, _, _)
VolatilityFrom(assets, orc, volatilityThreshold, i, faultAt) ==
    IF i > Len(assets) THEN "calm"
    ELSE LET currentPriceResponse == getPriceFromOracle(orc, assets[i], faultAt = i)
             previousPriceResponse == GetPreviousCurrencyPrice(orc, assets[i])
             currentPrice == currentPriceResponse.price
             previousPrice == previousPriceResponse.price
         IN  IF ~currentPriceResponse.ok \/ ~previousPriceResponse.ok THEN "fail"
             ELSE IF ~IsZero(previousPrice)
                     /\ RLt(volatilityThreshold,
                            RAbs(RDiv(RSub(currentPrice, previousPrice),
                                      previousPrice)))
             THEN "volatile"
             ELSE IF IsZero(previousPrice) /\ ~IsZero(currentPrice)
             THEN "volatile"
             ELSE VolatilityFrom(assets, orc, volatilityThreshold, i + 1, faultAt)

\* CheckAssetVolatility(volatilityThreshold, oracleContractName) of part_004
CheckAssetVolatilityWithLookups(volatilityThreshold, faultAt) ==
    IF "basket1" \notin DOMAIN baskets THEN BasketThrown("basket")
    ELSE LET verdict == VolatilityFrom(baskets["basket1"].Tokens, oracle,
                                       volatilityThreshold, 1, faultAt)
         IN  IF verdict = "fail" THEN BasketThrown("oracle")
             ELSE BasketReturned(baskets, cbdc,
                                 [NoValues EXCEPT !.ret = (verdict = "calm")])

-----------------------------------------------------------------------------
(* The basket's other transactions and the risk predicates as actions *)

\* arguments of UpdateReserves: all zero, one negative, one entry too many
UpdatedReserves ==
    { <<Zero, Zero>>, <<Rat(-1), Rat(2)>>, <<Rat(5), Rat(5), Rat(5)>> }

\* the lookup of UpdateBasketPrices that does not come back (0: none)
PriceFaults == {0, 2}

\* arguments of the basket's AddLiquidity: a deposit of both assets, one with
\* a fractional amount, a list that is too short, a second amount the user
\* does not hold
DepositAmounts ==
    { <<Rat(1), Rat(1)>>, <<Rat(1), <<3, 2>>>>, <<Rat(1)>>, <<Rat(1), Rat(300)>> }
DepositFaults == {0, 2}

Percentages == {Rat(50), Rat(100), Zero, Rat(150)}
BasketRemoveFaults == {"none", "transfer", "reset"}

Thresholds == {Rat(2), Rat(3)}
ExposureLimits == {<<1, 2>>}
VolatilityThresholds == {<<1, 20>>}
VolatilityFaults == {0, 1}

CommitBasketAndRegistry(op, user, amount, r) ==
    /\ steps < MaxSteps
    /\ steps' = steps + 1
    /\ baskets' = r.bk
    /\ cbdc' = r.led
    /\ providers' = r.prov
    /\ last' = ObservedBasket(op, user, "", "", amount, r)
    /\ UNCHANGED <<reserve, userContribution, balance, oracle, others>>

DoReadBasket == CommitBasket("ReadBasket", "", "", "", Zero, ReadBasket)

DoUpdateReserves ==
    \E rs \in UpdatedReserves :
        CommitBasket("UpdateReserves", "", "", "", rs, UpdateReserves(rs))

DoUpdateBasketPrices ==
    \E f \in PriceFaults :
        CommitBasket("UpdateBasketPrices", "", "", "", Zero, UpdateBasketPrices(f))

DoBasketAddLiquidity ==
    \E am \in DepositAmounts, u \in Users, f \in DepositFaults :
        CommitBasket("BasketAddLiquidity", u, "", "", am,
                     BasketAddLiquidity(am, u, f))

DoBasketRemoveLiquidity ==
    \E p \in Percentages, u \in Users, f \in BasketRemoveFaults :
        CommitBasketAndRegistry("BasketRemoveLiquidity", u, p,
                                BasketRemoveLiquidity(p, u, f))

DoBasketRemoveLiquidityWithTransfers ==
    \E p \in Percentages, u \in Users, f \in BasketRemoveFaults :
        CommitBasketAndRegistry("BasketRemoveLiquidityWithTransfers", u, p,
                                BasketRemoveLiquidityWithTransfers(p, u, f))

DoCheckReserveThreshold ==
    \E x \in Thresholds :
        CommitBasket("CheckReserveThreshold", "", "", "", x,
                     CheckReserveThreshold(x))

DoCheckBasketExposure ==
    \E x \in ExposureLimits :
        CommitBasket("CheckBasketExposure", "", "", "", x, CheckBasketExposure(x))

DoCheckAssetVolatility ==
    CommitBasket("CheckAssetVolatility", "", "", "", Zero, CheckAssetVolatility)

DoCheckAssetVolatilityWithLookups ==
    \E x \in VolatilityThresholds, f \in VolatilityFaults :
        CommitBasket("CheckAssetVolatilityWithLookups", "", "", "", x,
                     CheckAssetVolatilityWithLookups(x, f))

NextBasketOps ==
    \/ DoInitBasket
    \/ DoReadBasket
    \/ DoUpdateReserves
    \/ DoUpdateBasketPrices
    \/ DoBasketAddLiquidity
    \/ DoBasketRemoveLiquidity
    \/ DoBasketRemoveLiquidityWithTransfers
    \/ DoCheckReserveThreshold
    \/ DoCheckBasketExposure
    \/ DoCheckAssetVolatility
    \/ DoCheckAssetVolatilityWithLookups
    \/ DoInit
    \/ DoGetReserve

\* registries of the basket's providers: none, or two with fees owed
BasketRegistries ==
    { EmptyRecord,
      [u \in Users |-> [amount |-> IF u = "u1" THEN Rat(30) ELSE Rat(70),
                        earnedFees |-> IF u = "u1" THEN Rat(3) ELSE Rat(7)]] }

\* oracles of the basket's assets: a price for each, or none for "beta"
BasketOracles ==
    { [t \in {"alpha", "beta"} |-> IF t = "alpha" THEN Rat(2) ELSE Rat(3)],
      [t \in {"alpha"} |-> Rat(2)] }

\* the basket, risk and pool chaincodes as deployed: no key written yet
InitBasketOps ==
    /\ reserve = EmptyRecord
    /\ userContribution = EmptyRecord
    /\ providers \in BasketRegistries
    /\ balance \in InitialLedgers
    /\ oracle \in BasketOracles
    /\ InitBasketLedgers
    /\ InitOthers
    /\ last = NoCall
    /\ steps = 0

SpecBasketOps == InitBasketOps /\ [][NextBasketOps]_vars

-----------------------------------------------------------------------------
(* The pool beside a reserve wallet that starts with nothing *)

\* amountIn is a number: Swap is also given an amount that is not whole
FractionalSwapAmounts == {Rat(100), <<3, 2>>}

NextCustody ==
    \/ DoAddLiquidity
    \/ DoSwap(FractionalSwapAmounts)
    \/ DoRemoveLiquidity

\* an initialised, empty pool; the reserve wallet has no balance record yet
InitCustody ==
    /\ reserve = [k \in {RESERVE_WALLET_KEY} |-> [tokenA |-> Zero, tokenB |-> Zero]]
    /\ userContribution = [u \in Users |-> ZeroContribution]
    /\ providers = EmptyRecord
    /\ balance = [t \in Tokens |-> [a \in Users |-> 200]]
    /\ oracle \in InitialOracles
    /\ InitBasketLedgers
    /\ InitOthers
    /\ last = NoCall
    /\ steps = 0

SpecCustody == InitCustody /\ [][NextCustody]_vars

-----------------------------------------------------------------------------
(* The pool under the ledger's commit-time validation.  A transaction is     *)
(* first simulated by the chaincode against the committed world state        *)
(* (endorsement); its reads carry the version of every key read.  The        *)
(* ordering service then orders the endorsed transactions, and each peer     *)
(* validates them in that order: a transaction whose read versions are no    *)
(* longer the committed ones is marked invalid and writes nothing.           *)

MaxPending == 2

NoRead == -1

\* a Swap, AddLiquidity or RemoveLiquidity that would not read the reserve
\* record before writing it
ReadsReserveNever(op) == FALSE

\* LPContract.ts: AddLiquidity (97), Swap (201) and RemoveLiquidity (285)
\* getState the key "ReserveWallet" before they putState it; Init (47) writes
\* it without reading.
ReadsReserve(op) == op \in {"AddLiquidity", "Swap", "RemoveLiquidity"}

\* the collections a handler writes; Init writes the reserve record alone
WriteSet(op) ==
    IF op = "Init" THEN {"reserve"}
    ELSE {"reserve", "userContribution", "providers", "balance"}

\* the handler a proposal names, simulated on world state w with every
\* collaborator reachable
Simulate(w, tx) ==
    CASE tx.op = "Init" -> LiquidityPoolInit(w)
      [] tx.op = "AddLiquidity" -> AddLiquidity(w, tx.user, tx.a, tx.b, "none")
      [] tx.op = "Swap" -> Swap(w, tx.user, tx.token, tx.a, "none")
      [] tx.op = "RemoveLiquidity" -> RemoveLiquidity(w, tx.user, tx.a, "none")

Proposal(op, user, token, a, b) ==
    [op |-> op, user |-> user, token |-> token, a |-> a, b |-> b]

Proposals ==
    {Proposal("Init", "", "", Zero, Zero)}
    \cup {Proposal("AddLiquidity", u, "", Rat(100), Rat(100)) : u \in Users}
    \cup {Proposal("Swap", u, t, Rat(100), Zero) : u \in Users, t \in Tokens}
    \cup {Proposal("RemoveLiquidity", u, "", Rat(100), Zero) : u \in Users}

\* Endorsement: the handler runs against the committed state and nothing is
\* written; a handler that throws gives the client an error and no
\* transaction to submit.
Endorse ==
    \E tx \in Proposals :
        LET r == Simulate(World, tx)
        IN  /\ steps < MaxSteps
            /\ Cardinality(pending) < MaxPending
            /\ r.ok
            /\ pending' = pending \cup
                   {[id |-> steps, tx |-> tx, r |-> r,
                     read |-> IF ReadsReserve(tx.op) THEN version ELSE NoRead]}
            /\ steps' = steps + 1
            /\ UNCHANGED <<exchange, last, version, ledger, paycrow, dao>>

\* the read set still names the committed version
Valid(p) == p.read = NoRead \/ p.read = version

\* Validation and commit of the next transaction in the block
Order ==
    \E p \in pending :
        /\ pending' = pending \ {p}
        /\ IF Valid(p)
           THEN /\ reserve' = p.r.w.reserve
                /\ userContribution' =
                       IF "userContribution" \in WriteSet(p.tx.op)
                       THEN p.r.w.userContribution ELSE userContribution
                /\ providers' = IF "providers" \in WriteSet(p.tx.op)
                                THEN p.r.w.providers ELSE providers
                /\ balance' = IF "balance" \in WriteSet(p.tx.op)
                              THEN p.r.w.balance ELSE balance
                /\ version' = version + 1
                /\ last' = Observed(p.tx.op, p.tx.user, p.tx.token, p.tx.a, p.tx.b, p.r)
           ELSE /\ UNCHANGED <<reserve, userContribution, providers, balance, version>>
                /\ last' = Observed(p.tx.op, "", "", Zero, Zero,
                                    Thrown(World, "MVCC_READ_CONFLICT"))
        /\ UNCHANGED <<oracle, baskets, cbdc, steps, ledger, paycrow, dao>>

NextOrdered == Endorse \/ Order

SpecOrdered == InitProvisioned /\ [][NextOrdered]_vars

-----------------------------------------------------------------------------
(* Token.ts: the transactions of the token chaincode called by a client.     *)
(* A stored number is the decimal string of a JavaScript number; parseInt    *)
(* gives NaN for the empty buffer of an absent key and for the string "NaN". *)
(* Null stands for NaN.                                                      *)

totalSupplyKey == "totalSupply"

\* parseInt(value) of an argument
ParseIntOrNaN(value) == IF value = Null THEN Null ELSE Rat(parseInt(value))

\* a + b and a - b of JavaScript numbers, NaN when an operand is NaN
NAdd(a, b) == IF a = Null \/ b = Null THEN Null ELSE RAdd(a, b)
NSub(a, b) == IF a = Null \/ b = Null THEN Null ELSE RSub(a, b)

\* a < b of JavaScript numbers: false when an operand is NaN
NLt(a, b) == ~(a = Null) /\ ~(b = Null) /\ RLt(a, b)

\* Token.add / Token.sub: the result, or a throw when the check
\* a !== c - b || b !== c - a fails, as it does for NaN
Checked(c) == [ok |-> ~(c = Null), v |-> c]

TokenThrown(led, site) == [ok |-> FALSE, err |-> site, led |-> led, ev |-> "none"]
TokenReturned(led, ev) == [ok |-> TRUE, err |-> "none", led |-> led, ev |-> ev]

\* the value of key k in the partial function f, `absent` when the key holds nothing
ValueOr(f, k, absent) == IF k \in DOMAIN f THEN f[k] ELSE absent

\* the partial function f with key k set to v
Put(f, k, v) == [x \in DOMAIN f \cup {k} |-> IF x = k THEN v ELSE f[x]]

InitLedger(led) ==
    IF led.initialized THEN TokenThrown(led, "initialized")
    ELSE TokenReturned([led EXCEPT !.initialized = TRUE], "none")

\* Token._transfer on the whole state of the chaincode
LedgerTransfer(led, from, to, value) ==
    LET valueInt == ParseIntOrNaN(value)
        fromCurrentBalance == led.bal[from]
        toCurrentBalance == ValueOr(led.bal, to, Zero)
        fromUpdatedBalance == Checked(NSub(fromCurrentBalance, valueInt))
        toUpdatedBalance == Checked(NAdd(toCurrentBalance, valueInt))
    IN  IF from = to THEN TokenThrown(led, "same")
        ELSE IF NLt(valueInt, Zero) THEN TokenThrown(led, "negative")
        ELSE IF from \notin DOMAIN led.bal THEN TokenThrown(led, "nobalance")
        ELSE IF NLt(fromCurrentBalance, valueInt) THEN TokenThrown(led, "insufficient")
        ELSE IF ~fromUpdatedBalance.ok \/ ~toUpdatedBalance.ok
             THEN TokenThrown(led, "overflow")
        ELSE TokenReturned(
                 [led EXCEPT !.bal = Put(Put(led.bal, from, fromUpdatedBalance.v),
                                         to, toUpdatedBalance.v)],
                 "none")

TokenTransfer(led, from, to, amount) ==
    IF ~led.initialized THEN TokenThrown(led, "uninitialized")
    ELSE LET transferResp == LedgerTransfer(led, from, to, amount)
         IN  IF ~transferResp.ok THEN transferResp
             ELSE TokenReturned(transferResp.led, "Transfer")

\* no transaction of Token.ts writes an allowance key
TransferFrom(led, spender, from, to, value) ==
    IF ~led.initialized THEN TokenThrown(led, "uninitialized")
    ELSE IF <<from, spender>> \notin DOMAIN led.allowance
         THEN TokenThrown(led, "noallowance")
    ELSE LET currentAllowance == led.allowance[<<from, spender>>]
             valueInt == ParseIntOrNaN(value)
             transferResp == LedgerTransfer(led, from, to, value)
             updatedAllowance == Checked(NSub(currentAllowance, valueInt))
         IN  IF NLt(currentAllowance, valueInt) THEN TokenThrown(led, "allowance")
             ELSE IF ~transferResp.ok THEN transferResp
             ELSE IF ~updatedAllowance.ok THEN TokenThrown(led, "overflow")
             ELSE TokenReturned(
                      [transferResp.led EXCEPT
                          !.allowance = Put(led.allowance, <<from, spender>>,
                                            updatedAllowance.v)],
                      "Transfer")

Mint(led, to, amount) ==
    IF ~led.initialized THEN TokenThrown(led, "uninitialized")
    ELSE LET tSupply == ValueOr(led.supply, totalSupplyKey, Zero)
             balance_ == ValueOr(led.bal, to, Zero)
             newTotalSupply == NAdd(tSupply, ParseIntOrNaN(amount))
             newToBalance == NAdd(balance_, ParseIntOrNaN(amount))
         IN  TokenReturned(
                 [led EXCEPT !.supply = Put(led.supply, totalSupplyKey, newTotalSupply),
                             !.bal = Put(led.bal, to, newToBalance)],
                 "Mint")

\* parseInt of an absent key's empty buffer is NaN, and Burn does not test for it
Burn(led, from, amount) ==
    IF ~led.initialized THEN TokenThrown(led, "uninitialized")
    ELSE LET totalSupply == ValueOr(led.supply, totalSupplyKey, Null)
             fromBalance == ValueOr(led.bal, from, Null)
             newTotalSupply == NSub(totalSupply, ParseIntOrNaN(amount))
             newFromBalance == NSub(fromBalance, ParseIntOrNaN(amount))
         IN  TokenReturned(
                 [led EXCEPT !.supply = Put(led.supply, totalSupplyKey, newTotalSupply),
                             !.bal = Put(led.bal, from, newFromBalance)],
                 "Burn")

TokenAmounts == {Rat(5), Rat(10), Rat(-5)}

TokenObserved(op, from, to, amount, r) ==
    [op |-> op, ok |-> r.ok, err |-> r.err, from |-> from, to |-> to,
     a |-> amount, event |-> r.ev]

CommitToken(op, from, to, amount, r) ==
    /\ steps < MaxSteps
    /\ steps' = steps + 1
    /\ ledger' = r.led
    /\ last' = TokenObserved(op, from, to, amount, r)
    /\ UNCHANGED <<exchange, version, pending, paycrow, dao>>

DoInitLedger == CommitToken("InitLedger", "", "", Zero, InitLedger(ledger))

DoMint ==
    \E to \in Users, am \in TokenAmounts :
        CommitToken("Mint", "", to, am, Mint(ledger, to, am))

DoBurn ==
    \E from \in Users, am \in TokenAmounts :
        CommitToken("Burn", from, "", am, Burn(ledger, from, am))

DoTransfer ==
    \E from \in Users, to \in Users, am \in TokenAmounts :
        CommitToken("Transfer", from, to, am, TokenTransfer(ledger, from, to, am))

DoTransferFrom ==
    \E spender \in Users, from \in Users, to \in Users, am \in TokenAmounts :
        CommitToken("TransferFrom", from, to, am,
                    TransferFrom(ledger, spender, from, to, am))

NextToken == DoInitLedger \/ DoMint \/ DoBurn \/ DoTransfer \/ DoTransferFrom

SpecToken == InitProvisioned /\ [][NextToken]_vars

-----------------------------------------------------------------------------
(* PayCrow: the token with escrow orders.  Its Transfer and _transfer are    *)
(* those of Token.ts.  An order is stored under its bare id, next to the     *)
(* keys "name", "symbol" and "decimals"; a balance is stored under a         *)
(* composite key.  moved[id] is what the creation of order id put into the   *)
(* escrow account and paid[id] what has been transferred from the escrow     *)
(* account to its seller since.                                              *)

escrowKey == "escrow"
nameKey == "name"

EscrowThrown(st, site) == [ok |-> FALSE, err |-> site, st |-> st, ev |-> "none"]
EscrowReturned(st, ev) == [ok |-> TRUE, err |-> "none", st |-> st, ev |-> ev]

\* CheckInitialized and OrderExists: getState(id) holds something.  The key
\* "name" holds something whenever the contract is initialized.
OrderExists(st, id) == id \in DOMAIN st.orders \/ (id = nameKey /\ st.initialized)

PlainOrder(amount, seller) ==
    [Amount |-> amount, Account |-> seller, Status |-> "Pending",
     CustomTransferOnEvent |-> <<>>]

\* InitLedger writes the order "0000" whatever the key holds; no token moves
EscrowInitLedger(st) ==
    IF st.initialized THEN EscrowThrown(st, "initialized")
    ELSE EscrowReturned(
             [st EXCEPT !.initialized = TRUE,
                        !.orders = Put(st.orders, "0000", PlainOrder(Rat(100), "TEST2")),
                        !.moved = Put(st.moved, "0000", Zero),
                        !.paid = Put(st.paid, "0000", Zero)],
             "none")

CreateOrder(st, orderId, amount, owner, seller) ==
    IF ~st.initialized THEN EscrowThrown(st, "uninitialized")
    ELSE IF owner \notin DOMAIN st.bal THEN EscrowThrown(st, "account")
    ELSE IF NLt(st.bal[owner], ParseIntOrNaN(amount)) THEN EscrowThrown(st, "balance")
    ELSE IF OrderExists(st, orderId) THEN EscrowThrown(st, "exists")
    ELSE LET transferResp == LedgerTransfer(st, owner, escrowKey, amount)
         IN  IF ~transferResp.ok THEN EscrowThrown(st, transferResp.err)
             ELSE EscrowReturned(
                      [transferResp.led EXCEPT
                          !.orders = Put(st.orders, orderId, PlainOrder(amount, seller)),
                          !.moved = Put(st.moved, orderId, ParseIntOrNaN(amount)),
                          !.paid = Put(st.paid, orderId, Zero)],
                      "CreateOrder")

\* The loop over OwnerShares of CreateCustomEscrowOrder from index i: every
\* getState reads the committed balances bal0, every putState goes to bal.
RECURSIVE DebitShares(_, _, _, _, _, _)
DebitShares(bal0, bal, Owners, OwnerShares, i, tot) ==
    IF i > Len(OwnerShares) THEN [ok |-> TRUE, bal |-> bal, tot |-> tot]
    ELSE IF i > Len(Owners) \/ Owners[i] \notin DOMAIN bal0
         THEN [ok |-> FALSE, bal |-> bal, tot |-> tot]
    ELSE LET fromCurrentBalance == bal0[Owners[i]]
             share == ParseIntOrNaN(OwnerShares[i])
         IN  IF NLt(fromCurrentBalance, share)
             THEN [ok |-> FALSE, bal |-> bal, tot |-> tot]
             ELSE DebitShares(bal0, Put(bal, Owners[i], NSub(fromCurrentBalance, share)),
                              Owners, OwnerShares, i + 1, NAdd(tot, share))

CreateCustomEscrowOrder(st, id, seller, amount, Owners, OwnerShares, CustomTransferOnEvent) ==
    IF ~st.initialized THEN EscrowThrown(st, "uninitialized")
    ELSE IF OrderExists(st, id) THEN EscrowThrown(st, "exists")
    ELSE LET debit == DebitShares(st.bal, st.bal, Owners, OwnerShares, 1, Zero)
             toCurrentBalance == ValueOr(st.bal, escrowKey, Zero)
             toNewBalance == NAdd(toCurrentBalance, debit.tot)
             order == [Amount |-> amount, Account |-> seller, Status |-> "Pending",
                       CustomTransferOnEvent |-> CustomTransferOnEvent]
         IN  IF ~debit.ok THEN EscrowThrown(st, "balance")
             ELSE EscrowReturned(
                      [st EXCEPT !.bal = Put(debit.bal, escrowKey, toNewBalance),
                                 !.orders = Put(st.orders, id, order),
                                 !.moved = Put(st.moved, id, debit.tot),
                                 !.paid = Put(st.paid, id, Zero)],
                      "CreateOrder")

\* JSON.parse of the value under id as an order: the key "name" holds a plain
\* string, which does not parse
ReadableOrder(st, id) == id \in DOMAIN st.orders

\* ApproveOrder, ProcessOrder and CompleteOrder: the status check and the write
Advance(st, id, from, to, ev) ==
    IF ~st.initialized THEN EscrowThrown(st, "uninitialized")
    ELSE IF ~OrderExists(st, id) THEN EscrowThrown(st, "missing")
    ELSE IF ~ReadableOrder(st, id) THEN EscrowThrown(st, "parse")
    ELSE IF ~(st.orders[id].Status = from) THEN EscrowThrown(st, "status")
    ELSE EscrowReturned([st EXCEPT !.orders[id].Status = to], ev)

ApproveOrder(st, id) == Advance(st, id, "Pending", "Approved", "ApproveOrder")
ProcessOrder(st, id) == Advance(st, id, "Approved", "Processing", "AcceptOrder")
CompleteOrder(st, id) == Advance(st, id, "Processing", "Completed", "CompleteOrder")

\* this.Transfer(ctx, escrowKey, seller, amount) on behalf of order id
PayFromEscrow(st, id, seller, amount) ==
    LET transferResp == TokenTransfer(st, escrowKey, seller, amount)
    IN  IF ~transferResp.ok THEN EscrowThrown(st, transferResp.err)
        ELSE EscrowReturned(
                 [transferResp.led EXCEPT
                     !.paid[id] = NAdd(st.paid[id], ParseIntOrNaN(amount))],
                 "Transfer")

CompleteEscrow(st, id) ==
    IF ~st.initialized THEN EscrowThrown(st, "uninitialized")
    ELSE IF ~OrderExists(st, id) THEN EscrowThrown(st, "missing")
    ELSE IF ~ReadableOrder(st, id) THEN EscrowThrown(st, "parse")
    ELSE IF ~(st.orders[id].Status = "Completed") THEN EscrowThrown(st, "status")
    ELSE LET order == st.orders[id]
             transferResp == PayFromEscrow(st, id, order.Account, order.Amount)
         IN  IF ~transferResp.ok THEN transferResp
             ELSE EscrowReturned(
                      [transferResp.st EXCEPT !.orders[id].Status = "EscrowCompleted"],
                      "CompleteEscrow")

\* ApproveCustomEscrowOrder, ProcessCustomEscrowOrder, CompleteCustomEscrowOrder
\* and AcceptOrderDelivery: the status check, the transfer of
\* CustomTransferOnEvent[k - 1] unless it is "0", and the write.  On an order
\* without CustomTransferOnEvent the index throws; an entry that is missing
\* is undefined, which Transfer cannot subtract.
AdvanceCustom(st, id, from, to, k, ev) ==
    IF ~st.initialized THEN EscrowThrown(st, "uninitialized")
    ELSE IF ~OrderExists(st, id) THEN EscrowThrown(st, "missing")
    ELSE IF ~ReadableOrder(st, id) THEN EscrowThrown(st, "parse")
    ELSE IF ~(st.orders[id].Status = from) THEN EscrowThrown(st, "status")
    ELSE LET order == st.orders[id]
             advanced == [st EXCEPT !.orders[id].Status = to]
         IN  IF k > Len(order.CustomTransferOnEvent) THEN EscrowThrown(st, "transfer")
             ELSE LET amountToTransferOnEvent == order.CustomTransferOnEvent[k]
                      transferResp ==
                          PayFromEscrow(advanced, id, order.Account, amountToTransferOnEvent)
                  IN  IF amountToTransferOnEvent = Zero THEN EscrowReturned(advanced, ev)
                      ELSE IF ~transferResp.ok THEN EscrowThrown(st, transferResp.err)
                      ELSE EscrowReturned(transferResp.st, ev)

ApproveCustomEscrowOrder(st, id) ==
    AdvanceCustom(st, id, "Pending", "Approved", 1, "ApproveOrder")
ProcessCustomEscrowOrder(st, id) ==
    AdvanceCustom(st, id, "Approved", "Processed", 2, "ProcessOrder")
CompleteCustomEscrowOrder(st, id) ==
    AdvanceCustom(st, id, "Processed", "Completed", 3, "CompleteOrder")
AcceptOrderDelivery(st, id) ==
    AdvanceCustom(st, id, "Completed", "EscrowCompleted", 4, "AcceptOrder")

\* deleteState(id) of whatever key id names
DeleteOrder(st, id) ==
    IF ~st.initialized THEN EscrowThrown(st, "uninitialized")
    ELSE IF ~OrderExists(st, id) THEN EscrowThrown(st, "missing")
    ELSE IF id = nameKey THEN EscrowReturned([st EXCEPT !.initialized = FALSE], "none")
    ELSE EscrowReturned(
             [st EXCEPT !.orders = [x \in DOMAIN st.orders \ {id} |-> st.orders[x]]],
             "none")

OrderIds == {"0000", "o1", "o2"}
PlainAmounts == {Rat(10)}
CustomShares == {<<Rat(10)>>, <<Rat(5)>>}
CustomTransfers == {<<Rat(20), Zero, Zero, Zero>>, <<Zero, Zero, Zero, Rat(10)>>}

CommitEscrow(op, id, r) ==
    /\ steps < MaxSteps
    /\ steps' = steps + 1
    /\ paycrow' = r.st
    /\ last' = [op |-> op, ok |-> r.ok, err |-> r.err, id |-> id, event |-> r.ev]
    /\ UNCHANGED <<exchange, version, pending, ledger, dao>>

DoEscrowInitLedger == CommitEscrow("InitLedger", "", EscrowInitLedger(paycrow))

DoCreateOrder ==
    \E am \in PlainAmounts :
        CommitEscrow("CreateOrder", "o1", CreateOrder(paycrow, "o1", am, "u1", "u2"))

DoCreateCustomEscrowOrder ==
    \E sh \in CustomShares, ct \in CustomTransfers :
        CommitEscrow("CreateCustomEscrowOrder", "o2",
                     CreateCustomEscrowOrder(paycrow, "o2", "u2", Rat(10), <<"u1">>, sh, ct))

DoApproveOrder ==
    \E id \in OrderIds : CommitEscrow("ApproveOrder", id, ApproveOrder(paycrow, id))
DoProcessOrder ==
    \E id \in OrderIds : CommitEscrow("ProcessOrder", id, ProcessOrder(paycrow, id))
DoCompleteOrder ==
    \E id \in OrderIds : CommitEscrow("CompleteOrder", id, CompleteOrder(paycrow, id))
DoCompleteEscrow ==
    \E id \in OrderIds : CommitEscrow("CompleteEscrow", id, CompleteEscrow(paycrow, id))
DoApproveCustomEscrowOrder ==
    \E id \in OrderIds :
        CommitEscrow("ApproveCustomEscrowOrder", id, ApproveCustomEscrowOrder(paycrow, id))
DoProcessCustomEscrowOrder ==
    \E id \in OrderIds :
        CommitEscrow("ProcessCustomEscrowOrder", id, ProcessCustomEscrowOrder(paycrow, id))
DoCompleteCustomEscrowOrder ==
    \E id \in OrderIds :
        CommitEscrow("CompleteCustomEscrowOrder", id, CompleteCustomEscrowOrder(paycrow, id))
DoAcceptOrderDelivery ==
    \E id \in OrderIds :
        CommitEscrow("AcceptOrderDelivery", id, AcceptOrderDelivery(paycrow, id))
DoDeleteOrder ==
    \E id \in OrderIds \cup {nameKey} :
        CommitEscrow("DeleteOrder", id, DeleteOrder(paycrow, id))

NextEscrow ==
    \/ DoEscrowInitLedger
    \/ DoCreateOrder
    \/ DoCreateCustomEscrowOrder
    \/ DoApproveOrder
    \/ DoProcessOrder
    \/ DoCompleteOrder
    \/ DoCompleteEscrow
    \/ DoApproveCustomEscrowOrder
    \/ DoProcessCustomEscrowOrder
    \/ DoCompleteCustomEscrowOrder
    \/ DoAcceptOrderDelivery
    \/ DoDeleteOrder

SpecEscrow == InitProvisioned /\ [][NextEscrow]_vars

-----------------------------------------------------------------------------
(* DAOContract.ts: countries, their members, proposals and votes.  Countries *)
(* and proposals are stored under their bare names; the names used here do   *)
(* not collide.                                                              *)

DaoThrown(st, site) == [ok |-> FALSE, err |-> site, st |-> st]
DaoReturned(st) == [ok |-> TRUE, err |-> "none", st |-> st]

\* putState of a fresh record: a country registered again loses its members
RegisterCountry(st, countryName) ==
    DaoReturned([st EXCEPT !.countries = Put(st.countries, countryName,
                                             [members |-> <<>>])])

AddCountryMember(st, countryName, memberId, role) ==
    IF countryName \notin DOMAIN st.countries THEN DaoThrown(st, "country")
    ELSE DaoReturned(
             [st EXCEPT !.countries[countryName].members =
                            Append(@, [memberId |-> memberId, role |-> role])])

Propose(st, proposalId, country, deadline, quorumPercentage) ==
    IF deadline <= st.now THEN DaoThrown(st, "deadline")
    ELSE IF quorumPercentage <= 0 \/ quorumPercentage > 100 THEN DaoThrown(st, "quorum")
    ELSE DaoReturned(
             [st EXCEPT !.proposals =
                 Put(st.proposals, proposalId,
                     [country |-> country, status |-> "OPEN", votedCountries |-> <<>>,
                      yesVotes |-> 0, noVotes |-> 0, deadline |-> deadline,
                      quorumPercentage |-> quorumPercentage])])

\* totalVotes / totalEligibleVoters >= quorumPercentage / 100, where
\* totalEligibleVoters is votedCountries.length
checkForQuorum(proposal) ==
    LET totalVotes == proposal.yesVotes + proposal.noVotes
        totalEligibleVoters == Len(proposal.votedCountries)
    IN  IF totalEligibleVoters > 0
           /\ totalVotes * 100 >= proposal.quorumPercentage * totalEligibleVoters
        THEN [proposal EXCEPT !.status = "CLOSED"]
        ELSE proposal

\* countryData.members.find((m) => m.memberId === memberId)
FindMember(members, memberId) ==
    LET hits == {i \in 1..Len(members) : members[i].memberId = memberId}
    IN  IF hits = {} THEN [found |-> FALSE, role |-> ""]
        ELSE [found |-> TRUE,
              role |-> members[CHOOSE i \in hits : \A j \in hits : i <= j].role]

Vote(st, proposalId, country, memberId, vote) ==
    IF proposalId \notin DOMAIN st.proposals THEN DaoThrown(st, "proposal")
    ELSE LET proposal == st.proposals[proposalId]
         IN  IF st.now > proposal.deadline \/ proposal.status = "CLOSED"
             THEN DaoThrown(st, "ended")
             ELSE IF country \notin DOMAIN st.countries THEN DaoThrown(st, "country")
             ELSE LET member == FindMember(st.countries[country].members, memberId)
                      counted ==
                          [proposal EXCEPT
                              !.votedCountries = Append(@, country),
                              !.yesVotes = IF vote = "YES" THEN @ + 1 ELSE @,
                              !.noVotes = IF vote = "YES" THEN @ ELSE @ + 1]
                  IN  IF ~member.found THEN DaoThrown(st, "member")
                      ELSE IF member.role \notin {"ADMIN", "VOTER"}
                           THEN DaoThrown(st, "rights")
                      ELSE IF \E i \in 1..Len(proposal.votedCountries) :
                                  proposal.votedCountries[i] = country
                           THEN DaoThrown(st, "voted")
                      ELSE DaoReturned(
                               [st EXCEPT !.proposals[proposalId] =
                                   checkForQuorum(counted)])

CountryNames == {"c1", "c2", "c3"}
MemberIds == {"m1", "m2"}
MemberRoles == {"VOTER", "OBSERVER"}
Deadlines == {1, 3}
QuorumPercentages == {0, 50, 100}

CommitDao(op, proposalId, country, r) ==
    /\ steps < MaxSteps
    /\ steps' = steps + 1
    /\ dao' = r.st
    /\ last' = [op |-> op, ok |-> r.ok, err |-> r.err, id |-> proposalId,
                country |-> country]
    /\ UNCHANGED <<exchange, version, pending, ledger, paycrow>>

DoRegisterCountry ==
    \E c \in {"c1", "c3"} : CommitDao("RegisterCountry", "", c, RegisterCountry(dao, c))

DoAddCountryMember ==
    \E c \in {"c2", "c3"}, m \in MemberIds, role \in MemberRoles :
        CommitDao("AddCountryMember", "", c, AddCountryMember(dao, c, m, role))

DoPropose ==
    \E d \in Deadlines, q \in QuorumPercentages :
        CommitDao("Propose", "p1", "c1", Propose(dao, "p1", "c1", d, q))

DoVote ==
    \E c \in CountryNames, m \in MemberIds, v \in {"YES", "NO"} :
        CommitDao("Vote", "p1", c, Vote(dao, "p1", c, m, v))

\* time passes between transactions
DoTick ==
    CommitDao("Tick", "", "", DaoReturned([dao EXCEPT !.now = @ + 1]))

NextDao == DoRegisterCountry \/ DoAddCountryMember \/ DoPropose \/ DoVote \/ DoTick

SpecDao == InitProvisioned /\ [][NextDao]_vars

-----------------------------------------------------------------------------
(* Quantities of the pool state the properties speak of *)

ReserveRecord == reserve[RESERVE_WALLET_KEY]

PoolInitialized == RESERVE_WALLET_KEY \in DOMAIN reserve

\* the constant-product invariant K of a reserve record
K(r) == RMul(r.tokenA, r.tokenB)

InputSide(r, token) == IF token = "tokenA" THEN r.tokenA ELSE r.tokenB
OutputSide(r, token) == IF token = "tokenA" THEN r.tokenB ELSE r.tokenA

RECURSIVE SumOver(_, _, _)
SumOver(f, S, field) ==
    IF S = {} THEN Zero
    ELSE LET u == CHOOSE x \in S : TRUE
         IN  RAdd(f[u][field], SumOver(f, S \ {u}, field))

TotalContributionA == SumOver(userContribution, DOMAIN userContribution, "contributionA")
TotalContributionB == SumOver(userContribution, DOMAIN userContribution, "contributionB")
TotalShares == SumOver(userContribution, DOMAIN userContribution, "lpTokens")

PoolUnchanged == UNCHANGED <<reserve, userContribution, providers, balance, oracle>>

-----------------------------------------------------------------------------
(* Properties *)

\* C1: for every successful Swap on a pool with positive reserves, the new
\* input-side reserve times (the old output-side reserve minus the raw,
\* pre-fee output) equals the pre-trade K = reserveA * reserveB, and the
\* returned amountOut is the raw output times (1 - 0.003).
C1_SwapKeepsKAndChargesFee ==
    [][(/\ last'.op = "Swap" /\ last'.ok
        /\ PoolInitialized
        /\ RLt(Zero, ReserveRecord.tokenA) /\ RLt(Zero, ReserveRecord.tokenB))
       => /\ RMul(RAdd(InputSide(ReserveRecord, last'.token), last'.a),
                  RSub(OutputSide(ReserveRecord, last'.token), last'.out.raw))
             = K(ReserveRecord)
          /\ last'.out.ret = RMul(last'.out.raw, <<997, 1000>>)]_vars

\* C1 witness: a Swap with a positive raw output has run on a pool whose
\* reserves are positive.
C1_Witness ==
    /\ last.op = "Swap" /\ last.ok
    /\ RLt(Zero, last.out.raw)
    /\ RLt(Zero, ReserveRecord.tokenA) /\ RLt(Zero, ReserveRecord.tokenB)

\* C2 as stated: after a successful Swap the stored output-side reserve is the
\* old one minus amountOut, the post-fee amount returned to the caller.
C2_OutputReserveLessAmountOut ==
    [][(last'.op = "Swap" /\ last'.ok)
       => OutputSide(reserve'[RESERVE_WALLET_KEY], last'.token)
          = RSub(OutputSide(ReserveRecord, last'.token), last'.out.ret)]_vars

\* C2 amended: after a successful Swap the stored output-side reserve is the
\* old one minus the raw output, that is minus (amountOut + fee): the fee
\* leaves the recorded reserve together with amountOut.
C2_OutputReserveLessRawOutput ==
    [][(last'.op = "Swap" /\ last'.ok)
       => /\ OutputSide(reserve'[RESERVE_WALLET_KEY], last'.token)
             = RSub(OutputSide(ReserveRecord, last'.token),
                    RAdd(last'.out.ret, last'.out.fee))
          /\ RAdd(last'.out.ret, last'.out.fee) = last'.out.raw]_vars

\* C2 witness: a Swap that charged a fee other than zero has run.
C2_Witness == last.op = "Swap" /\ last.ok /\ ~IsZero(last.out.fee)

\* C3: in every reachable state both pool reserves are non-negative.
C3_ReservesNonNegative ==
    PoolInitialized =>
        /\ RLe(Zero, ReserveRecord.tokenA)
        /\ RLe(Zero, ReserveRecord.tokenB)

\* C4: in every reachable state the sum of contributionA over all positions
\* does not exceed reserveA, and the sum of contributionB does not exceed
\* reserveB.
C4_ContributionsWithinReserves ==
    PoolInitialized =>
        /\ RLe(TotalContributionA, ReserveRecord.tokenA)
        /\ RLe(TotalContributionB, ReserveRecord.tokenB)

C7_SwapAllOrNothing ==
    [][last'.op = "Swap"
       => IF last'.ok
          THEN /\ PoolInitialized
               /\ Token_transfer(
                      balance[IF last'.token = "tokenA" THEN "tokenA" ELSE "tokenB"],
                      last'.user, RESERVE_WALLET_KEY, last'.a).ok
               /\ Token_transfer(
                      balance[IF last'.token = "tokenA" THEN "tokenB" ELSE "tokenA"],
                      RESERVE_WALLET_KEY, last'.user, last'.out.ret).ok
          ELSE /\ last'.err \in {"reserve", "list", "credit", "debit", "payout"}
               /\ PoolUnchanged]_vars

\* C7 witness: a Swap has failed at its last sub-call, the credit of
\* amountOut, after the fee distribution and the debit went through.
C7_Witness == last.op = "Swap" /\ ~last.ok /\ last.err = "payout"

\* C8: an AddLiquidity returns only when both transfers from the user went
\* through; when one of them fails the operation fails and reserves,
\* positions and token balances are as before.
C8_AddLiquidityAllOrNothing ==
    [][last'.op = "AddLiquidity"
       => IF last'.ok
          THEN /\ Token_transfer(balance["tokenA"], last'.user,
                                 RESERVE_WALLET_KEY, last'.a).ok
               /\ Token_transfer(balance["tokenB"], last'.user,
                                 RESERVE_WALLET_KEY, last'.b).ok
          ELSE PoolUnchanged]_vars

\* C8 witness: an AddLiquidity has failed at the transfer of asset B, after
\* the transfer of asset A went through.
C8_Witness == last.op = "AddLiquidity" /\ ~last.ok /\ last.err = "transferB"

\* C9: an AddLiquidity that passes the price check and whose two transfers go
\* through on an initialized pool mints sqrt(amountA * amountB) shares on an
\* empty pool and min(amountA/reserveA, amountB/reserveB) otherwise, and
\* raises each reserve by the amount supplied.
C9_AddLiquidityMints ==
    [][(last'.op = "AddLiquidity" /\ last'.err \in {"none", "position"})
       => /\ last'.ok
          /\ reserve'[RESERVE_WALLET_KEY].tokenA = RAdd(ReserveRecord.tokenA, last'.a)
          /\ reserve'[RESERVE_WALLET_KEY].tokenB = RAdd(ReserveRecord.tokenB, last'.b)
          /\ IF IsZero(ReserveRecord.tokenA) \/ IsZero(ReserveRecord.tokenB)
             THEN last'.out.minted = RSqrt(RMul(last'.a, last'.b))
             ELSE last'.out.minted
                  = RMin(RDiv(last'.a, ReserveRecord.tokenA),
                         RDiv(last'.b, ReserveRecord.tokenB))]_vars

\* C10: an AddLiquidity never fails on the missing position record of a user
\* who has none yet.
C10_FirstDepositCreatesPosition ==
    ~(last.op = "AddLiquidity" /\ ~last.ok /\ last.err = "position")

\* C11: AddLiquidity on a pool with two non-zero reserves returns only if
\* amountA/amountB is within 0.01 of reserveA/reserveB; it fails on the ratio
\* only on such a pool, never on an empty one; a deposit that fails changes
\* nothing.
C11_RatioAgainstReserves ==
    [][last'.op = "AddLiquidity"
       => /\ last'.err = "ratio"
                => /\ PoolInitialized
                   /\ ~IsZero(ReserveRecord.tokenA) /\ ~IsZero(ReserveRecord.tokenB)
          /\ (/\ last'.ok
              /\ ~IsZero(ReserveRecord.tokenA) /\ ~IsZero(ReserveRecord.tokenB))
                => RLe(RAbs(RSub(RDiv(last'.a, last'.b),
                                 RDiv(ReserveRecord.tokenA, ReserveRecord.tokenB))),
                       <<1, 100>>)
          /\ ~last'.ok => PoolUnchanged]_vars

C15_FeeSharesProportional ==
    [][(last'.op = "distributeFees" /\ last'.ok)
       => LET totalContribution == SumAmounts(providers, DOMAIN providers)
          IN  /\ \A u \in DOMAIN providers :
                   (providers[u].earnedFees # Null /\ ~IsZero(totalContribution))
                   => providers'[u].earnedFees
                      = RAdd(providers[u].earnedFees,
                             RDiv(RMul(last'.a, providers[u].amount),
                                  totalContribution))
              /\ (/\ last'.a = Rat(10)
                  /\ DOMAIN providers = {"u1", "u2"}
                  /\ providers["u1"].amount = Rat(30)
                  /\ providers["u2"].amount = Rat(70)
                  /\ providers["u1"].earnedFees = Zero
                  /\ providers["u2"].earnedFees = Zero)
                 => /\ providers'["u1"].earnedFees = Rat(3)
                    /\ providers'["u2"].earnedFees = Rat(7)]_vars

\* C15 witness: a fee of 10 has been distributed over amounts 30 and 70 and
\* the earned fees stand at 3 and 7.
C15_Witness ==
    /\ last.op = "distributeFees" /\ last.ok /\ last.a = Rat(10)
    /\ DOMAIN providers = {"u1", "u2"}
    /\ providers["u1"].earnedFees = Rat(3)
    /\ providers["u2"].earnedFees = Rat(7)

\* C16: in every reachable state the earned fees of every provider are not
\* below zero.
C16_EarnedFeesNonNegative ==
    \A u \in DOMAIN providers :
        providers[u].earnedFees # Null => RLe(Zero, providers[u].earnedFees)

\* C17: Init on a pool whose reserve record exists fails and leaves the
\* record as it was; reserves are set to zero only where no record existed.
C17_InitOnlyOnce ==
    [][(last'.op = "Init" /\ PoolInitialized)
       => (~last'.ok /\ UNCHANGED reserve)]_vars

\* C18: InitBasket with an identifier under which a basket is stored fails
\* and leaves the stored record as it was.
C18_InitBasketOnlyOnce ==
    [][(last'.op = "InitBasket" /\ last'.token \in DOMAIN baskets)
       => (~last'.ok /\ UNCHANGED baskets)]_vars

\* the invariant as the formula is written: the sum over i of
\* reserve_i * product over j # i of (1 + reserve_i / reserve_j)
RECURSIVE ProductOver(_, _, _)
ProductOver(Reserves, i, j) ==
    IF j > Len(Reserves) THEN Rat(1)
    ELSE IF i = j THEN ProductOver(Reserves, i, j + 1)
    ELSE RMul(RAdd(Rat(1), RDiv(Reserves[i], Reserves[j])),
              ProductOver(Reserves, i, j + 1))

RECURSIVE SumOfTerms(_, _)
SumOfTerms(Reserves, i) ==
    IF i > Len(Reserves) THEN Zero
    ELSE RAdd(RMul(Reserves[i], ProductOver(Reserves, i, 1)),
              SumOfTerms(Reserves, i + 1))

\* C19: the toAmount of a basket swap is D_before - D_after, D being the sum
\* over i of reserve_i * product over j # i of (1 + reserve_i / reserve_j),
\* taken on the reserves before and after amount is subtracted from the
\* reserve of fromAsset.
C19_ToAmountIsLiteralFormula ==
    [][(last'.op = "SwapCBDCs" /\ last'.ok)
       => LET before == baskets["basket1"].Reserves
              fromIndex == indexOf(baskets["basket1"].Tokens, last'.token)
              after == [before EXCEPT ![fromIndex + 1] = RSub(@, last'.a)]
          IN  last'.out.ret
              = RSub(SumOfTerms(before, 1), SumOfTerms(after, 1))]_vars

\* C20: a basket swap between two different assets takes amount from the
\* user on the ledger of fromAsset and gives toAmount to the user on the
\* ledger of toAsset (each ledger moving the integer part).
C20_TransfersOnOwnLedgers ==
    [][(last'.op = "SwapCBDCs" /\ last'.ok /\ last'.token # last'.to)
       => /\ cbdc'[last'.token][last'.user]
             = cbdc[last'.token][last'.user] - parseInt(last'.a)
          /\ cbdc'[last'.to][last'.user]
             = cbdc[last'.to][last'.user] + parseInt(last'.out.ret)]_vars

\* C21: a basket swap that fails (no basket "basket1", an asset the basket
\* does not hold, a settlement transfer that fails) leaves the basket and every
\* asset ledger as they were; one that succeeds found the basket and both
\* assets in it, and the user's holdings moved by the whole amount paid in and
\* the whole amount paid out.
RECURSIVE HoldingsOver(_, _, _)
HoldingsOver(led, S, user) ==
    IF S = {} THEN 0
    ELSE LET c == CHOOSE x \in S : TRUE
         IN  (IF user \in DOMAIN led[c] THEN led[c][user] ELSE 0)
                 + HoldingsOver(led, S \ {c}, user)

UserHoldings(led, user) == HoldingsOver(led, DOMAIN led, user)

C21_BasketSwapAllOrNothing ==
    [][ last'.op = "SwapCBDCs" =>
          IF last'.ok
          THEN /\ "basket1" \in DOMAIN baskets
               /\ indexOf(baskets["basket1"].Tokens, last'.token) # -1
               /\ indexOf(baskets["basket1"].Tokens, last'.to) # -1
               /\ UserHoldings(cbdc', last'.user)
                    = UserHoldings(cbdc, last'.user) - parseInt(last'.a)
                          + parseInt(last'.out.ret)
          ELSE UNCHANGED <<baskets, cbdc>> ]_vars

\* a swap on an initialised basket was rejected because the transfer to the
\* user failed after the transfer from the user had gone through
C21_Witness ==
    /\ last.op = "SwapCBDCs" /\ ~last.ok /\ last.err = "credit"
    /\ "basket1" \in DOMAIN baskets

\* C22: in every state the basket operations reach, every reserve quantity of
\* every stored basket is non-negative.
C22_BasketReservesNonNegative ==
    \A k \in DOMAIN baskets :
        \A i \in 1..Len(baskets[k].Reserves) : RLe(Zero, baskets[k].Reserves[i])

\* C23: in every state the basket operations reach, the Tokens, Reserves,
\* Buffers, Weights and Prices lists of every stored basket have one length.
C23_BasketListsSameLength ==
    \A k \in DOMAIN baskets :
        /\ Len(baskets[k].Reserves) = Len(baskets[k].Tokens)
        /\ Len(baskets[k].Buffers) = Len(baskets[k].Tokens)
        /\ Len(baskets[k].Weights) = Len(baskets[k].Tokens)
        /\ Len(baskets[k].Prices) = Len(baskets[k].Tokens)

RECURSIVE RemovedWhole(_, _, _, _)
RemovedWhole(Reserves, percentage, i, n) ==
    IF i > n THEN 0
    ELSE parseInt(RMul(RDiv(percentage, Rat(100)), Reserves[i]))
             + RemovedWhole(Reserves, percentage, i + 1, n)

\* C25: a basket RemoveLiquidity that returns was given a percentage in
\* (0, 100], lowered every reserve i by (percentage / 100) * reserve[i], paid
\* those amounts and the caller's earned fees to the caller, and left the
\* caller's earned fees at zero.
C25_BasketRemoveLiquidity ==
    [][ ( /\ last'.op \in {"BasketRemoveLiquidity",
                           "BasketRemoveLiquidityWithTransfers"}
          /\ last'.ok )
        => LET basket == baskets["basket1"]
               percentage == last'.a
           IN  /\ RLt(Zero, percentage) /\ RLe(percentage, Rat(100))
               /\ \A i \in 1..Len(basket.Tokens) :
                    baskets'["basket1"].Reserves[i]
                      = RSub(basket.Reserves[i],
                             RMul(RDiv(percentage, Rat(100)), basket.Reserves[i]))
               /\ UserHoldings(cbdc', last'.user)
                    = UserHoldings(cbdc, last'.user)
                        + RemovedWhole(basket.Reserves, percentage, 1,
                                       Len(basket.Tokens))
                        + parseInt(providers[last'.user].earnedFees)
               /\ providers'[last'.user].earnedFees = Zero ]_vars

\* C26: an UpdateBasketPrices that fails (no basket, a lookup that fails for
\* some asset) leaves the stored baskets as they were; one that returns found
\* a price for every asset, stored exactly those prices and changed nothing
\* else of the basket.
C26_UpdateBasketPricesAllOrNothing ==
    [][ last'.op = "UpdateBasketPrices" =>
          IF last'.ok
          THEN LET basket == baskets["basket1"]
               IN  /\ \A i \in 1..Len(basket.Tokens) :
                        /\ basket.Tokens[i] \in DOMAIN oracle
                        /\ baskets'["basket1"].Prices[i] = oracle[basket.Tokens[i]]
                   /\ [baskets' EXCEPT !["basket1"].Prices = basket.Prices]
                        = baskets
          ELSE UNCHANGED baskets ]_vars

\* the refresh of an initialised basket failed at the second asset, after the
\* oracle had answered for the first
C26_Witness ==
    /\ last.op = "UpdateBasketPrices" /\ ~last.ok /\ last.err = "oracle"
    /\ "basket1" \in DOMAIN baskets
    /\ baskets["basket1"].Tokens[1] \in DOMAIN oracle

ReadOnlyOperations ==
    { "GetReserve", "ReadBasket", "CheckReserveThreshold", "CheckBasketExposure",
      "CheckAssetVolatility", "CheckAssetVolatilityWithLookups" }

\* C27: GetReserve, ReadBasket, CheckReserveThreshold, CheckBasketExposure and
\* CheckAssetVolatility, whether they return or fail, leave every stored key
\* (pool, positions, registry, ledgers, oracle, baskets) with the value it had.
C27_QueriesChangeNothing ==
    [][ last'.op \in ReadOnlyOperations =>
          UNCHANGED <<reserve, userContribution, providers, balance, oracle,
                      baskets, cbdc>> ]_vars

\* an exposure check of an initialised basket returned
C27_Witness ==
    /\ last.op = "CheckBasketExposure" /\ last.ok
    /\ "basket1" \in DOMAIN baskets

\* C28: CheckReserveThreshold(X) returns true iff every reserve of the basket
\* is at least X (a reserve equal to X passes), false iff one is below X.
C28_ReserveThresholdVerdict ==
    (last.op = "CheckReserveThreshold" /\ last.ok)
    => LET Reserves == baskets["basket1"].Reserves
       IN  last.out.ret = (\A i \in 1..Len(Reserves) : RLe(last.a, Reserves[i]))

\* the check returned true for a basket that holds a reserve equal to X
C28_Witness ==
    /\ last.op = "CheckReserveThreshold" /\ last.ok /\ last.out.ret = TRUE
    /\ \E i \in 1..Len(baskets["basket1"].Reserves) :
           baskets["basket1"].Reserves[i] = last.a

\* C29: CheckBasketExposure(limit) returns true iff every reserve divided by
\* the sum of the reserves is at most limit; when the reserves sum to zero no
\* ratio is at most limit and it returns false.
C29_ExposureVerdict ==
    (last.op = "CheckBasketExposure" /\ last.ok)
    => LET Reserves == baskets["basket1"].Reserves
           total == SumReserves(Reserves, 1)
       IN  last.out.ret =
             ( /\ ~IsZero(total)
               /\ \A i \in 1..Len(Reserves) :
                      RLe(RDiv(Reserves[i], total), last.a) )

\* C30: a CheckAssetVolatility that returns found the basket and, for every
\* asset of it, a current and a previous price, and it returns true iff no
\* asset's |current - previous| / previous exceeds the threshold.
C30_VolatilityVerdict ==
    (last.op \in {"CheckAssetVolatility", "CheckAssetVolatilityWithLookups"}
       /\ last.ok)
    => /\ "basket1" \in DOMAIN baskets
       /\ LET basketAssets == baskets["basket1"].Tokens
              current(i) == getPriceFromOracle(oracle, basketAssets[i], FALSE)
              previous(i) == GetPreviousCurrencyPrice(oracle, basketAssets[i])
          IN  /\ \A i \in 1..Len(basketAssets) : current(i).ok /\ previous(i).ok
              /\ last.out.ret =
                   (\A i \in 1..Len(basketAssets) :
                       /\ ~IsZero(previous(i).price)
                       /\ RLe(RAbs(RDiv(RSub(current(i).price, previous(i).price),
                                        previous(i).price)),
                              last.a))

\* the event the specification names for each mutating operation
SpecifiedEvent(op) ==
    CASE op = "AddLiquidity" -> "LiquidityAdded"
      [] op = "Swap" -> "Swap"
      [] op = "RemoveLiquidity" -> "LiquidityRemoved"
      [] op = "SwapCBDCs" -> "BasketSwap"

\* C31: a pool AddLiquidity, Swap or RemoveLiquidity, or a basket swap, that
\* returns has emitted the event named for it (LiquidityAdded, Swap,
\* LiquidityRemoved, BasketSwap); one that fails has emitted none.
C31_MutatingOperationsEmitEvent ==
    last.op \in {"AddLiquidity", "Swap", "RemoveLiquidity", "SwapCBDCs"}
    => last.event = (IF last.ok THEN SpecifiedEvent(last.op) ELSE "none")

\* C33: a pool Swap that returns was given tokenA or tokenB as its input
\* asset and a strictly positive amountIn; any other call fails (and, failing,
\* changes nothing: C7).
C33_SwapValidatesArguments ==
    (last.op = "Swap" /\ last.ok)
    => /\ last.token \in {"tokenA", "tokenB"}
       /\ RLt(Zero, last.a)

\* what the reserve wallet holds of `token` on the settlement ledger
Custody(token) ==
    IF RESERVE_WALLET_KEY \in DOMAIN balance[token]
    THEN balance[token][RESERVE_WALLET_KEY]
    ELSE 0

C35_BasketReservesTrackCustody ==
    [][ (last'.op = "SwapCBDCs" /\ last'.ok)
        => LET basket == baskets["basket1"]
               received(i) == IF basket.Tokens[i] = last'.token
                              THEN last'.a ELSE Zero
               paid(i) == IF basket.Tokens[i] = last'.to
                          THEN last'.out.ret ELSE Zero
           IN  \A i \in 1..Len(basket.Tokens) :
                   baskets'["basket1"].Reserves[i]
                     = RSub(RAdd(basket.Reserves[i], received(i)), paid(i)) ]_vars


\* C32: no lost update under commit-time validation.  Whenever an endorsed
\* pool transaction is ordered, either it commits and the pool state it leaves
\* is what its handler gives when executed on the state committed just before
\* it (so the committed history is the one-at-a-time execution in commit
\* order), or it is rejected and changes nothing; and once one transaction
\* commits, no other Swap, AddLiquidity or RemoveLiquidity still pending that
\* was simulated against the same version of the reserve record can commit.
C32_NoLostUpdate ==
    [][ Cardinality(pending') < Cardinality(pending)
        => IF last'.ok
           THEN LET s == Simulate(World, Proposal(last'.op, last'.user, last'.token,
                                                  last'.a, last'.b))
                IN  /\ s.ok
                    /\ reserve' = s.w.reserve
                    /\ userContribution' = s.w.userContribution
                    /\ providers' = s.w.providers
                    /\ balance' = s.w.balance
                    /\ \A q \in pending' :
                          q.tx.op \in {"AddLiquidity", "Swap", "RemoveLiquidity"}
                          => ~(q.read = version')
           ELSE /\ PoolUnchanged
                /\ version' = version
                /\ last'.err = "MVCC_READ_CONFLICT" ]_vars

\* C32 witness: a Swap simulated against the version another Swap committed
\* over was rejected, the pool holding the first Swap's reserves
C32_Witness ==
    /\ last.op = "Swap"
    /\ ~last.ok
    /\ last.err = "MVCC_READ_CONFLICT"
    /\ version = 2
    /\ PoolInitialized
    /\ ~(ReserveRecord.tokenA = ReserveRecord.tokenB)

\* C38: in the token every account balance is a number that is not negative,
\* after any sequence of InitLedger, Mint, Burn, Transfer and TransferFrom
C38_BalancesNonNegative ==
    \A a \in DOMAIN ledger.bal :
        /\ ~(ledger.bal[a] = Null)
        /\ RLe(Zero, ledger.bal[a])

\* C36: for every order of the escrow contract, what has been transferred
\* from the escrow account to the seller on its behalf does not exceed what
\* its creation moved into the escrow account
C36_PayoutWithinEscrowed ==
    \A id \in DOMAIN paycrow.orders :
        RLe(paycrow.paid[id], paycrow.moved[id])

StatusRank(status) ==
    CASE status = "Pending" -> 0
      [] status = "Approved" -> 1
      [] status \in {"Processing", "Processed"} -> 2
      [] status = "Completed" -> 3
      [] status = "EscrowCompleted" -> 4

\* C37: while an order exists its status stays or moves to the next stage of
\* Pending, Approved, Processing/Processed, Completed, EscrowCompleted
C37_StatusOnlyForward ==
    [][ \A id \in DOMAIN paycrow.orders \cap DOMAIN paycrow'.orders :
            LET before == StatusRank(paycrow.orders[id].Status)
                after == StatusRank(paycrow'.orders[id].Status)
            IN  after = before \/ after = before + 1 ]_vars

\* C39: a vote closes a proposal only when the countries that have voted on
\* it are at least quorumPercentage per cent of the registered countries;
\* until then the proposal stays OPEN
C39_OpenUntilQuorum ==
    [][ \A p \in DOMAIN dao.proposals \cap DOMAIN dao'.proposals :
            (last'.op = "Vote" /\ dao.proposals[p].status = "OPEN"
                /\ dao'.proposals[p].status = "CLOSED")
            => Len(dao'.proposals[p].votedCountries) * 100
                   >= dao'.proposals[p].quorumPercentage
                          * Cardinality(DOMAIN dao'.countries) ]_vars

====
